---------------------------- MODULE Spec2Model ----------------------------
(***************************************************************************)
(* Training Flow Simulator: the Time Estimation Engine                     *)
(* (src/src/engine/timeEngine.ts), the Exercise Fit Engine                 *)
(* (src/src/engine/fitEngine.ts), LocalStorageAdapter.importJSON           *)
(* (src/unnamed/part_003), the project store (src/src/model/types.ts) and  *)
(* the simulation's playback timer (RoomBuilder.tsx).  Each has its own    *)
(* specification over the shared variables: SpecTime, Spec, SpecRec,       *)
(* SpecClock, SpecImport, SpecStore, SpecAgenda (the agenda editor),       *)
(* SpecImportProject (a session ending in an import) and SpecPlayback.     *)
(*                                                                         *)
(* Numbers.  The engines compute in floating-point minutes.  Every         *)
(* quantity they produce from integer minutes, integer seconds and integer *)
(* participant counts is a multiple of 1/60 minute (0.15 = 9/60,           *)
(* 0.2 = 12/60, 0.5 = 30/60, seconds/60), so the model carries every       *)
(* computed duration exactly, in seconds: a field named ..._minutes of a   *)
(* TimeEstimate, FitResult or Recommendation holds minutes *               *)
(* SecondsPerMinute.  Inputs (base_minutes, window_minutes, time_range_max)*)
(* are whole minutes, as in the catalog and the block type defaults.       *)
(* A score is carried as an exact fraction num/den.                        *)
(*                                                                         *)
(* An optional value (question_config?, reason?) is a sequence of length   *)
(* at most one: << >> is undefined.                                        *)
(***************************************************************************)
EXTENDS Integers, Sequences, FiniteSets, TLC

VARIABLES
    params,             \* argument of estimateBlockTime
    estimate,           \* TimeEstimate returned by estimateBlockTime
    exercise,           \* arguments of checkExerciseFit ...
    block,              \* ... and of getRecommendations / getQuickAlternatives
    room,
    participant_count,
    experience_level,
    fitResult,          \* FitResult returned by checkExerciseFit
    catalog,            \* EXERCISE_LIBRARY
    recommendations,    \* Recommendation[] returned by the last ranking call
    called,             \* the function applied last, "none" before any call
    minutes,            \* arguments of formatMinutesToTime ...
    start_time,
    formatted,          \* ... and the string it returned
    json,               \* argument of importJSON
    imported,           \* its outcome: the project returned or the error thrown
    project,            \* the state of useProjectStore ...
    currentScreen,
    selectedBlockId,
    isPlaying,
    playbackPosition

\* arguments and results of the two engines
engineVars == << params, estimate, exercise, block, room, participant_count,
                 experience_level, fitResult, catalog, recommendations >>

clockVars == << minutes, start_time, formatted >>

importVars == << json, imported >>

storeVars == << project, currentScreen, selectedBlockId, isPlaying,
               playbackPosition >>

vars == << engineVars, called, clockVars, importVars, storeVars >>

----------------------------------------------------------------------------
(* Types of src/src/model/types.ts *)

ExperienceLevel == { "novice", "mixed", "advanced" }

BlockType == { "opening_questions", "contract", "lecture", "pairs", "groups",
               "workbook", "energizer", "video_debrief", "recap_module",
               "recap_day", "break" }

RoomTemplate == { "horseshoe_tables", "horseshoe_no_tables", "lecture_20plus" }

SecondsPerMinute == 60

Undefined == << >>

Abs(x) == IF x < 0 THEN -x ELSE x

Max(a, b) == IF a > b THEN a ELSE b

Min(a, b) == IF a < b THEN a ELSE b

\* Math.floor in place of Math.ceil: a partial group gets no question
CeilDiv_Floor(a, b) == a \div b

\* Math.ceil(a / b) for a >= 0, b > 0
CeilDiv(a, b) == (a + b - 1) \div b

----------------------------------------------------------------------------
(* Time Estimation Engine *)

\* calculateExperienceModifier with the novice and advanced factors exchanged
CalculateExperienceModifier_LevelsExchanged(base_minutes, level) ==
    CASE level = "novice"   -> -((base_minutes * SecondsPerMinute * 2) \div 10)
      [] level = "advanced" -> (base_minutes * SecondsPerMinute * 2) \div 10
      [] OTHER              -> 0

\* calculateExperienceModifier with the reduction applied to every level but
\* novice
CalculateExperienceModifier_MixedReduced(base_minutes, level) ==
    CASE level = "novice"   -> (base_minutes * SecondsPerMinute * 2) \div 10
      [] OTHER              -> -((base_minutes * SecondsPerMinute * 2) \div 10)

\* novice: +20%, mixed: 0, advanced: -20% of base_minutes
CalculateExperienceModifier(base_minutes, level) ==
    CASE level = "novice"   -> (base_minutes * SecondsPerMinute * 2) \div 10
      [] level = "advanced" -> -((base_minutes * SecondsPerMinute * 2) \div 10)
      [] OTHER              -> 0

\* calculateOverhead with the large-room minute added to lectures only
CalculateOverhead_LargeRoomLectureOnly(count, method, room_template) ==
    LET overhead ==
          CASE method = "groups"        -> 3 * SecondsPerMinute + (3 * SecondsPerMinute * count) \div 10
            [] method = "pairs"         -> 2 * SecondsPerMinute + (15 * SecondsPerMinute * count) \div 100
            [] method = "workbook"      -> 1 * SecondsPerMinute + (1 * SecondsPerMinute * count) \div 10
            [] method = "video_debrief" -> 2 * SecondsPerMinute
            [] method = "lecture"       -> 1 * SecondsPerMinute
            [] method = "energizer"     -> 1 * SecondsPerMinute
            [] OTHER                    -> SecondsPerMinute \div 2
    IN  IF room_template = "lecture_20plus" /\ method = "lecture"
        THEN overhead + 1 * SecondsPerMinute
        ELSE overhead

CalculateOverhead(count, method, room_template) ==
    LET overhead ==
          CASE method = "groups"        -> 3 * SecondsPerMinute + (3 * SecondsPerMinute * count) \div 10
            [] method = "pairs"         -> 2 * SecondsPerMinute + (15 * SecondsPerMinute * count) \div 100
            [] method = "workbook"      -> 1 * SecondsPerMinute + (1 * SecondsPerMinute * count) \div 10
            [] method = "video_debrief" -> 2 * SecondsPerMinute
            [] method = "lecture"       -> 1 * SecondsPerMinute
            [] method = "energizer"     -> 1 * SecondsPerMinute
            [] OTHER                    -> SecondsPerMinute \div 2
    IN  IF room_template = "lecture_20plus"
        THEN overhead + 1 * SecondsPerMinute
        ELSE overhead

GetSuggestedQuestionCount(count, persons_per_question, questions_per_group) ==
    CeilDiv(count, persons_per_question) * questions_per_group

\* totalSeconds / 60 minutes, that is totalSeconds seconds
CalculateInteractionMinutes(question_config, count) ==
    IF question_config = Undefined
    THEN 0
    ELSE LET qc == question_config[1]
             autoCount == GetSuggestedQuestionCount(count,
                              qc.persons_per_question, qc.questions_per_group)
             questionsCount == Max(autoCount, Len(qc.questions))
             totalSeconds ==
                 questionsCount *
                 (qc.seconds_per_question_prompt +
                  qc.expected_answers_per_question * qc.seconds_per_answer)
         IN  (totalSeconds * SecondsPerMinute) \div 60

\* estimateBlockTime with the interaction time left out of the total
EstimateBlockTime_TotalWithoutInteraction(p) ==
    LET experience_modifier_minutes ==
            CalculateExperienceModifier(p.base_minutes, p.experience_level)
        overhead_minutes ==
            CalculateOverhead(p.participant_count, p.method, p.room_template)
        interaction_minutes ==
            CalculateInteractionMinutes(p.question_config, p.participant_count)
    IN  [ base_minutes                |-> p.base_minutes * SecondsPerMinute,
          experience_modifier_minutes |-> experience_modifier_minutes,
          overhead_minutes            |-> overhead_minutes,
          interaction_minutes         |-> interaction_minutes,
          total_minutes               |-> p.base_minutes * SecondsPerMinute +
                                          experience_modifier_minutes +
                                          overhead_minutes ]

EstimateBlockTime(p) ==
    LET experience_modifier_minutes ==
            CalculateExperienceModifier(p.base_minutes, p.experience_level)
        overhead_minutes ==
            CalculateOverhead(p.participant_count, p.method, p.room_template)
        interaction_minutes ==
            CalculateInteractionMinutes(p.question_config, p.participant_count)
        total_minutes ==
            p.base_minutes * SecondsPerMinute + experience_modifier_minutes +
            overhead_minutes + interaction_minutes
    IN  [ base_minutes                |-> p.base_minutes * SecondsPerMinute,
          experience_modifier_minutes |-> experience_modifier_minutes,
          overhead_minutes            |-> overhead_minutes,
          interaction_minutes         |-> interaction_minutes,
          total_minutes               |-> total_minutes ]

----------------------------------------------------------------------------
(* Exercise Fit Engine *)

\* the estimate step of checkExerciseFit
FitEstimate(ex, blk, rm, count, level) ==
    EstimateBlockTime([ base_minutes      |-> ex.time_range_max,
                        experience_level  |-> level,
                        participant_count |-> count,
                        method            |-> ex.type,
                        room_template     |-> rm.template,
                        question_config   |-> blk.question_config ])

\* checkExerciseFit rejecting an exercise that needs exactly the flipcharts
\* the room has
CheckExerciseFit_FlipchartsStrict(ex, blk, rm, count, level) ==
    IF \/ count < ex.participant_range_min
       \/ count > ex.participant_range_max
    THEN [ exercise_id |-> ex.id, fits |-> FALSE, estimated_minutes |-> 0,
           reason |-> << "Participant count outside range" >> ]
    ELSE IF ex.requires_tables /\ ~rm.has_tables
    THEN [ exercise_id |-> ex.id, fits |-> FALSE, estimated_minutes |-> 0,
           reason |-> << "Exercise requires tables but room has none" >> ]
    ELSE IF ex.requires_flipchart_count > 0 /\
            ex.requires_flipchart_count >= rm.flipchart_count
    THEN [ exercise_id |-> ex.id, fits |-> FALSE, estimated_minutes |-> 0,
           reason |-> << "Exercise needs more flipcharts than room has" >> ]
    ELSE IF ex.requires_screen /\ ~rm.has_screen
    THEN [ exercise_id |-> ex.id, fits |-> FALSE, estimated_minutes |-> 0,
           reason |-> << "Exercise requires a screen but room has none" >> ]
    ELSE LET est == FitEstimate(ex, blk, rm, count, level)
         IN  IF est.total_minutes > blk.window_minutes * SecondsPerMinute
             THEN [ exercise_id |-> ex.id, fits |-> FALSE,
                    estimated_minutes |-> est.total_minutes,
                    reason |-> << "Estimated minutes exceed window" >> ]
             ELSE [ exercise_id |-> ex.id, fits |-> TRUE,
                    estimated_minutes |-> est.total_minutes,
                    reason |-> Undefined ]

\* checkExerciseFit checking the screen before the tables
CheckExerciseFit_ScreenFirst(ex, blk, rm, count, level) ==
    IF \/ count < ex.participant_range_min
       \/ count > ex.participant_range_max
    THEN [ exercise_id |-> ex.id, fits |-> FALSE, estimated_minutes |-> 0,
           reason |-> << "Participant count outside range" >> ]
    ELSE IF ex.requires_screen /\ ~rm.has_screen
    THEN [ exercise_id |-> ex.id, fits |-> FALSE, estimated_minutes |-> 0,
           reason |-> << "Exercise requires a screen but room has none" >> ]
    ELSE IF ex.requires_tables /\ ~rm.has_tables
    THEN [ exercise_id |-> ex.id, fits |-> FALSE, estimated_minutes |-> 0,
           reason |-> << "Exercise requires tables but room has none" >> ]
    ELSE IF ex.requires_flipchart_count > rm.flipchart_count
    THEN [ exercise_id |-> ex.id, fits |-> FALSE, estimated_minutes |-> 0,
           reason |-> << "Exercise needs more flipcharts than room has" >> ]
    ELSE LET est == FitEstimate(ex, blk, rm, count, level)
         IN  IF est.total_minutes > blk.window_minutes * SecondsPerMinute
             THEN [ exercise_id |-> ex.id, fits |-> FALSE,
                    estimated_minutes |-> est.total_minutes,
                    reason |-> << "Estimated minutes exceed window" >> ]
             ELSE [ exercise_id |-> ex.id, fits |-> TRUE,
                    estimated_minutes |-> est.total_minutes,
                    reason |-> Undefined ]

\* checkExerciseFit reporting no estimate when the time window is exceeded
CheckExerciseFit_OverageUnreported(ex, blk, rm, count, level) ==
    IF \/ count < ex.participant_range_min
       \/ count > ex.participant_range_max
    THEN [ exercise_id |-> ex.id, fits |-> FALSE, estimated_minutes |-> 0,
           reason |-> << "Participant count outside range" >> ]
    ELSE IF ex.requires_tables /\ ~rm.has_tables
    THEN [ exercise_id |-> ex.id, fits |-> FALSE, estimated_minutes |-> 0,
           reason |-> << "Exercise requires tables but room has none" >> ]
    ELSE IF ex.requires_flipchart_count > rm.flipchart_count
    THEN [ exercise_id |-> ex.id, fits |-> FALSE, estimated_minutes |-> 0,
           reason |-> << "Exercise needs more flipcharts than room has" >> ]
    ELSE IF ex.requires_screen /\ ~rm.has_screen
    THEN [ exercise_id |-> ex.id, fits |-> FALSE, estimated_minutes |-> 0,
           reason |-> << "Exercise requires a screen but room has none" >> ]
    ELSE LET est == FitEstimate(ex, blk, rm, count, level)
         IN  IF est.total_minutes > blk.window_minutes * SecondsPerMinute
             THEN [ exercise_id |-> ex.id, fits |-> FALSE,
                    estimated_minutes |-> 0,
                    reason |-> << "Estimated minutes exceed window" >> ]
             ELSE [ exercise_id |-> ex.id, fits |-> TRUE,
                    estimated_minutes |-> est.total_minutes,
                    reason |-> Undefined ]

\* the hard-filter pipeline; the estimate is only computed once the
\* participant and asset checks have passed
CheckExerciseFit(ex, blk, rm, count, level) ==
    IF \/ count < ex.participant_range_min
       \/ count > ex.participant_range_max
    THEN [ exercise_id |-> ex.id, fits |-> FALSE, estimated_minutes |-> 0,
           reason |-> << "Participant count outside range" >> ]
    ELSE IF ex.requires_tables /\ ~rm.has_tables
    THEN [ exercise_id |-> ex.id, fits |-> FALSE, estimated_minutes |-> 0,
           reason |-> << "Exercise requires tables but room has none" >> ]
    ELSE IF ex.requires_flipchart_count > rm.flipchart_count
    THEN [ exercise_id |-> ex.id, fits |-> FALSE, estimated_minutes |-> 0,
           reason |-> << "Exercise needs more flipcharts than room has" >> ]
    ELSE IF ex.requires_screen /\ ~rm.has_screen
    THEN [ exercise_id |-> ex.id, fits |-> FALSE, estimated_minutes |-> 0,
           reason |-> << "Exercise requires a screen but room has none" >> ]
    ELSE LET est == FitEstimate(ex, blk, rm, count, level)
         IN  IF est.total_minutes > blk.window_minutes * SecondsPerMinute
             THEN [ exercise_id |-> ex.id, fits |-> FALSE,
                    estimated_minutes |-> est.total_minutes,
                    reason |-> << "Estimated minutes exceed window" >> ]
             ELSE [ exercise_id |-> ex.id, fits |-> TRUE,
                    estimated_minutes |-> est.total_minutes,
                    reason |-> Undefined ]

\* scoreExercise with the weights of the time fit and the participant match
\* exchanged
ScoreExercise_WeightsSwapped(ex, blk, estimated_minutes, count) ==
    LET W == blk.window_minutes
        timeNum == IF estimated_minutes <= W * SecondsPerMinute
                   THEN estimated_minutes ELSE 0
        range == ex.participant_range_max - ex.participant_range_min
        deviation2 == Abs(2 * count - (ex.participant_range_min +
                                       ex.participant_range_max))
        R == IF range > 0 THEN range ELSE 1
        participantNum == IF range > 0 THEN range - deviation2 ELSE 1
        clampedParticipantNum == Max(0, Min(R, participantNum))
        assetDemand == (IF ex.requires_tables THEN 1 ELSE 0) +
                       ex.requires_flipchart_count +
                       (IF ex.requires_screen THEN 1 ELSE 0)
        assetTenths == Max(0, 10 - assetDemand)
        dynamicsScore == 1
    IN  [ num |-> 3 * timeNum * R
                  + 4 * clampedParticipantNum * SecondsPerMinute * W
                  + 2 * assetTenths * (SecondsPerMinute \div 10) * W * R
                  + 1 * dynamicsScore * SecondsPerMinute * W * R,
          den |-> 10 * SecondsPerMinute * W * R ]

\* scoreExercise adding the dynamics score without its weight of 0.1
ScoreExercise_DynamicsUnweighted(ex, blk, estimated_minutes, count) ==
    LET W == blk.window_minutes
        timeNum == IF estimated_minutes <= W * SecondsPerMinute
                   THEN estimated_minutes ELSE 0
        range == ex.participant_range_max - ex.participant_range_min
        deviation2 == Abs(2 * count - (ex.participant_range_min +
                                       ex.participant_range_max))
        R == IF range > 0 THEN range ELSE 1
        participantNum == IF range > 0 THEN range - deviation2 ELSE 1
        clampedParticipantNum == Max(0, Min(R, participantNum))
        assetDemand == (IF ex.requires_tables THEN 1 ELSE 0) +
                       ex.requires_flipchart_count +
                       (IF ex.requires_screen THEN 1 ELSE 0)
        assetTenths == Max(0, 10 - assetDemand)
        dynamicsScore == 1
    IN  [ num |-> 4 * timeNum * R
                  + 3 * clampedParticipantNum * SecondsPerMinute * W
                  + 2 * assetTenths * (SecondsPerMinute \div 10) * W * R
                  + 10 * dynamicsScore * SecondsPerMinute * W * R,
          den |-> 10 * SecondsPerMinute * W * R ]

\* participantScore with the deviation taken over the whole range instead of
\* half of it
ParticipantScore_DeviationOverRange(ex, count) ==
    LET range == ex.participant_range_max - ex.participant_range_min
        deviation2 == Abs(2 * count - (ex.participant_range_min +
                                       ex.participant_range_max))
    IN  IF range > 0
        THEN [ num |-> 2 * range - deviation2, den |-> 2 * range ]
        ELSE [ num |-> 1, den |-> 1 ]

\* participantScore = range > 0 ? 1 - deviation / (range / 2) : 1, as the
\* exact fraction num / den:
\*   deviation / (range / 2) = |2 count - (min + max)| / range
ParticipantScore(ex, count) ==
    LET range == ex.participant_range_max - ex.participant_range_min
        deviation2 == Abs(2 * count - (ex.participant_range_min +
                                       ex.participant_range_max))
    IN  IF range > 0
        THEN [ num |-> range - deviation2, den |-> range ]
        ELSE [ num |-> 1, den |-> 1 ]

\* Math.max(0, Math.min(1, participantScore))
ClampedParticipantScore(ex, count) ==
    LET participantScore == ParticipantScore(ex, count)
    IN  [ num |-> Max(0, Min(participantScore.den, participantScore.num)),
          den |-> participantScore.den ]

\* The weighted score as the exact fraction num / den.  With E the estimate
\* in seconds, W the window in minutes, Pn / R the clamped participant
\* score and d the asset demand:
\*   0.4 * E/(60 W) + 0.3 * Pn/R + 0.2 * max(0, 10 - d)/10 + 0.1 * 1
\* over the common denominator 600 W R.
ScoreExercise(ex, blk, estimated_minutes, count) ==
    LET W == blk.window_minutes
        \* fitsTimeScore = timeRatio <= 1 ? timeRatio : 0, as timeNum / (60 W)
        timeNum == IF estimated_minutes <= W * SecondsPerMinute
                   THEN estimated_minutes ELSE 0
        clampedParticipantScore == ClampedParticipantScore(ex, count)
        R == clampedParticipantScore.den
        clampedParticipantNum == clampedParticipantScore.num
        assetDemand == (IF ex.requires_tables THEN 1 ELSE 0) +
                       ex.requires_flipchart_count +
                       (IF ex.requires_screen THEN 1 ELSE 0)
        \* assetScore = max(0, 1 - assetDemand * 0.1), in tenths
        assetTenths == Max(0, 10 - assetDemand)
        dynamicsScore == 1
    IN  [ num |-> 4 * timeNum * R
                  + 3 * clampedParticipantNum * SecondsPerMinute * W
                  + 2 * assetTenths * (SecondsPerMinute \div 10) * W * R
                  + 1 * dynamicsScore * SecondsPerMinute * W * R,
          den |-> 10 * SecondsPerMinute * W * R ]

RECURSIVE GCD(_, _)
GCD(a, b) == IF b = 0 THEN a ELSE GCD(b, a % b)

\* the sign of a - b for two fractions with positive denominators
CompareScore(a, b) ==
    LET g == GCD(a.den, b.den)
    IN  a.num * (b.den \div g) - b.num * (a.den \div g)

\* Math.round(x) for x = num / den >= 0: floor(x + 1/2)
MathRound(num, den) == (2 * num + den) \div (2 * den)

\* Math.round(score * 100) / 100, carried in hundredths
FitScore(score) == MathRound(100 * score.num, score.den)

\* the computed parts of the reason text: the title, the percentage of the
\* window filled, the window and the participant range
GenerateReason(ex, estimated_minutes, blk) ==
    [ exercise_id |-> ex.id,
      timeUsage   |-> MathRound(100 * estimated_minutes,
                                blk.window_minutes * SecondsPerMinute),
      window_minutes |-> blk.window_minutes,
      participant_range_min |-> ex.participant_range_min,
      participant_range_max |-> ex.participant_range_max ]

\* the scoring loop without its "if (!fitResult.fits) continue"
RECURSIVE ScoreCandidates_KeepsFailing(_, _, _, _, _)
ScoreCandidates_KeepsFailing(candidates, blk, rm, count, level) ==
    IF candidates = << >>
    THEN << >>
    ELSE LET ex == Head(candidates)
             fit == CheckExerciseFit(ex, blk, rm, count, level)
         IN  << [ exercise  |-> ex,
                  fitResult |-> fit,
                  score     |-> ScoreExercise(ex, blk,
                                    fit.estimated_minutes, count) ] >>
             \o ScoreCandidates_KeepsFailing(Tail(candidates), blk, rm,
                                             count, level)

\* the candidates that fit, each with its FitResult and score, in catalog order
RECURSIVE ScoreCandidates(_, _, _, _, _)
ScoreCandidates(candidates, blk, rm, count, level) ==
    IF candidates = << >>
    THEN << >>
    ELSE LET ex == Head(candidates)
             fit == CheckExerciseFit(ex, blk, rm, count, level)
             rest == ScoreCandidates(Tail(candidates), blk, rm, count, level)
         IN  IF ~fit.fits
             THEN rest
             ELSE << [ exercise  |-> ex,
                       fitResult |-> fit,
                       score     |-> ScoreExercise(ex, blk,
                                         fit.estimated_minutes, count) ] >>
                  \o rest

\* the sort with the comparator's operands exchanged: ascending
RECURSIVE InsertByScore_Ascending(_, _)
InsertByScore_Ascending(sorted, s) ==
    IF sorted = << >>
    THEN << s >>
    ELSE IF CompareScore(s.score, Head(sorted).score) < 0
         THEN << s >> \o sorted
         ELSE << Head(sorted) >> \o InsertByScore_Ascending(Tail(sorted), s)

\* scored.sort((a, b) => b.score - a.score): Array.prototype.sort is stable,
\* so entries of equal score keep their order
RECURSIVE InsertByScore(_, _)
InsertByScore(sorted, s) ==
    IF sorted = << >>
    THEN << s >>
    ELSE IF CompareScore(s.score, Head(sorted).score) > 0
         THEN << s >> \o sorted
         ELSE << Head(sorted) >> \o InsertByScore(Tail(sorted), s)

\* the candidates left in catalog order: the sort forgotten
SortByScore_Unsorted(scored) == scored

RECURSIVE SortByScore(_)
SortByScore(scored) ==
    IF scored = << >>
    THEN << >>
    ELSE InsertByScore(SortByScore(SubSeq(scored, 1, Len(scored) - 1)),
                       scored[Len(scored)])

\* Array.prototype.slice(0, n)
Slice(seq, n) == SubSeq(seq, 1, Min(n, Len(seq)))

ToRecommendation(s, blk) ==
    [ exercise          |-> s.exercise,
      estimated_minutes |-> s.fitResult.estimated_minutes,
      fit_score         |-> FitScore(s.score),
      reason            |-> GenerateReason(s.exercise,
                                s.fitResult.estimated_minutes, blk) ]

\* time_range_max < block.window_minutes * 0.7
UnderRescueThreshold(ex, blk) == 10 * ex.time_range_max < 7 * blk.window_minutes

\* the main picks taken from the second candidate on
MainPicks_SkipsFirst(sorted) ==
    LET all == [ i \in 1..Len(sorted) |-> i ]
    IN  Slice(SubSeq(all, 2, Len(all)), 3)

\* The entries of scored are distinct objects and Array.prototype.includes
\* compares them by identity, so a pick is the position of an entry in the
\* sorted array
\* four main picks instead of three
MainPicks_Four(sorted) == Slice([ i \in 1..Len(sorted) |-> i ], 4)

MainPicks(sorted) == Slice([ i \in 1..Len(sorted) |-> i ], 3)

InSeq(x, seq) == \E k \in 1..Len(seq) : seq[k] = x

\* the rescue picks without the preference for short exercises: the next
\* two candidates after the main picks
RescuePicks_NoPreference(sorted, blk) ==
    LET all == [ i \in 1..Len(sorted) |-> i ]
        mainPicks == MainPicks(sorted)
        IsRemaining(i) == ~InSeq(i, mainPicks)
    IN  Slice(SelectSeq(all, IsRemaining), 2)

\* the rescue picks without the backfill: only candidates under the
\* threshold
RescuePicks_NoBackfill(sorted, blk) ==
    LET all == [ i \in 1..Len(sorted) |-> i ]
        mainPicks == MainPicks(sorted)
        IsRescue(i) == /\ ~InSeq(i, mainPicks)
                       /\ UnderRescueThreshold(sorted[i].exercise, blk)
    IN  Slice(SelectSeq(all, IsRescue), 2)

\* the rescue picks drawn from all candidates, the main picks included
RescuePicks_MainNotExcluded(sorted, blk) ==
    LET all == [ i \in 1..Len(sorted) |-> i ]
        IsRescue(i) == UnderRescueThreshold(sorted[i].exercise, blk)
        rescueCandidates == Slice(SelectSeq(all, IsRescue), 2)
        IsRemaining(i) == ~InSeq(i, rescueCandidates)
        remaining == SelectSeq(all, IsRemaining)
    IN  rescueCandidates \o Slice(remaining, 2 - Len(rescueCandidates))

RescuePicks(sorted, blk) ==
    LET all == [ i \in 1..Len(sorted) |-> i ]
        mainPicks == MainPicks(sorted)
        IsRescue(i) == /\ ~InSeq(i, mainPicks)
                       /\ UnderRescueThreshold(sorted[i].exercise, blk)
        rescueCandidates == Slice(SelectSeq(all, IsRescue), 2)
        IsRemaining(i) == /\ ~InSeq(i, mainPicks)
                          /\ ~InSeq(i, rescueCandidates)
        remaining == SelectSeq(all, IsRemaining)
    IN  rescueCandidates \o Slice(remaining, 2 - Len(rescueCandidates))

GetRecommendations(library, blk, rm, count, level) ==
    LET IsType(ex) == ex.type = blk.type
        candidates == SelectSeq(library, IsType)
        sorted == SortByScore(ScoreCandidates(candidates, blk, rm, count, level))
        allPicks == MainPicks(sorted) \o RescuePicks(sorted, blk)
    IN  [ k \in 1..Len(allPicks) |-> ToRecommendation(sorted[allPicks[k]], blk) ]

\* getQuickAlternatives without the up-front restriction to short exercises
GetQuickAlternatives_NoThreshold(library, blk, rm, count, level) ==
    LET IsType(ex) == ex.type = blk.type
        candidates == SelectSeq(library, IsType)
        sorted == SortByScore(ScoreCandidates(candidates, blk, rm, count, level))
        picks == Slice(sorted, 2)
    IN  [ k \in 1..Len(picks) |-> ToRecommendation(picks[k], blk) ]

GetQuickAlternatives(library, blk, rm, count, level) ==
    LET IsQuick(ex) == ex.type = blk.type /\ UnderRescueThreshold(ex, blk)
        candidates == SelectSeq(library, IsQuick)
        sorted == SortByScore(ScoreCandidates(candidates, blk, rm, count, level))
        picks == Slice(sorted, 2)
    IN  [ k \in 1..Len(picks) |-> ToRecommendation(picks[k], blk) ]

----------------------------------------------------------------------------
(* formatMinutesToTime (src/src/engine/timeEngine.ts).  A string is the     *)
(* sequence of its characters; the empty string and an absent start_time    *)
(* are both << >>, and both are falsy in `if (start_time)`.                 *)

Digits == << "0", "1", "2", "3", "4", "5", "6", "7", "8", "9" >>

DigitValue(c) == CHOOSE d \in 0..9 : Digits[d + 1] = c

\* Number(s) for a string of decimal digits
RECURSIVE ToNumber(_)
ToNumber(s) ==
    IF s = << >>
    THEN 0
    ELSE 10 * ToNumber(SubSeq(s, 1, Len(s) - 1)) + DigitValue(s[Len(s)])

\* String(n) for an integer n >= 0
RECURSIVE NumberToString(_)
NumberToString(n) ==
    IF n < 10
    THEN << Digits[n + 1] >>
    ELSE NumberToString(n \div 10) \o << Digits[(n % 10) + 1] >>

\* s.padStart(targetLength, fill) for a one-character fill
RECURSIVE PadStart(_, _, _)
PadStart(s, targetLength, fill) ==
    IF Len(s) >= targetLength
    THEN s
    ELSE PadStart(<< fill >> \o s, targetLength, fill)

\* s.split(separator) for a one-character separator
RECURSIVE Split(_, _)
Split(s, separator) ==
    IF \A i \in 1..Len(s) : s[i] # separator
    THEN << s >>
    ELSE LET first == CHOOSE i \in 1..Len(s) :
                          /\ s[i] = separator
                          /\ \A j \in 1..(i - 1) : s[j] # separator
         IN  << SubSeq(s, 1, first - 1) >> \o
             Split(SubSeq(s, first + 1, Len(s)), separator)

\* formatMinutesToTime without the wrap of the hour at 24
FormatMinutesToTime_NoDayWrap(mins, start) ==
    LET rounded == MathRound(mins, 1)
        parts == Split(start, ":")
        totalMinutes == IF start # << >>
                        THEN rounded + ToNumber(parts[1]) * 60 + ToNumber(parts[2])
                        ELSE rounded
        h == totalMinutes \div 60
        m == totalMinutes % 60
    IN  PadStart(NumberToString(h), 2, "0") \o << ":" >> \o PadStart(NumberToString(m), 2, "0")

FormatMinutesToTime(mins, start) ==
    LET rounded == MathRound(mins, 1)
        parts == Split(start, ":")
        totalMinutes == IF start # << >>
                        THEN rounded + ToNumber(parts[1]) * 60 + ToNumber(parts[2])
                        ELSE rounded
        h == (totalMinutes \div 60) % 24
        m == totalMinutes % 60
    IN  PadStart(NumberToString(h), 2, "0") \o << ":" >> \o PadStart(NumberToString(m), 2, "0")

----------------------------------------------------------------------------
(* LocalStorageAdapter.importJSON (src/unnamed/part_003).  A JSON text is   *)
(* [ parses, value ]: whether JSON.parse accepts it and the value it        *)
(* yields.  A value is a record with its kind; a string carries its length, *)
(* an object its own properties.                                            *)

JsonNull == [ kind |-> "null" ]

JsonBoolean == [ kind |-> "boolean" ]

JsonNumber == [ kind |-> "number" ]

JsonString(length) == [ kind |-> "string", length |-> length ]

JsonArray == [ kind |-> "array" ]

JsonObject(fields) == [ kind |-> "object", fields |-> fields ]

\* typeof v
TypeOf(v) ==
    IF v.kind \in { "null", "array", "object" } THEN "object" ELSE v.kind

\* Array.isArray(v)
IsArray(v) == v.kind = "array"

\* whether `field in v` can be evaluated: the right operand must be an object
InApplies(v) == v.kind \in { "array", "object" }

\* field in v, for a field name that is not an array index or method
HasField(field, v) == v.kind = "object" /\ field \in DOMAIN v.fields

requiredFields ==
    << "id", "schema_version", "title", "participant_count", "blocks", "room" >>

\* the outcome of a call: a returned value, or a thrown error with its
\* message
Returned(value) == [ threw |-> "none", value |-> value ]

Threw(error, message) == [ threw |-> error, message |-> message ]

\* the for loop over requiredFields from position k, then the three checks
\* of the values
RECURSIVE CheckRequiredFields(_, _)
CheckRequiredFields(parsed, k) ==
    IF k > Len(requiredFields)
    THEN IF TypeOf(parsed.fields["id"]) # "string" \/
            parsed.fields["id"].length = 0
         THEN Threw("Error",
                    << "Invalid parsed: \"id\" must be a non-empty string" >>)
         ELSE IF ~IsArray(parsed.fields["blocks"])
         THEN Threw("Error",
                    << "Invalid parsed: \"blocks\" must be an array" >>)
         ELSE IF TypeOf(parsed.fields["room"]) # "object" \/
                 parsed.fields["room"] = JsonNull
         THEN Threw("Error",
                    << "Invalid parsed: \"room\" must be an object" >>)
         ELSE Returned(parsed)
    ELSE IF ~InApplies(parsed)
         THEN Threw("TypeError",
                    << "Cannot use 'in' operator to search for",
                       requiredFields[k] >>)
         ELSE IF ~HasField(requiredFields[k], parsed)
         THEN Threw("Error",
                    << "Invalid parsed: missing required field",
                       requiredFields[k] >>)
         ELSE CheckRequiredFields(parsed, k + 1)

ImportJSON(text) ==
    IF ~text.parses
    THEN Threw("Error", << "Invalid JSON: could not parse input" >>)
    ELSE CheckRequiredFields(text.value, 1)

----------------------------------------------------------------------------
(* The project store (src/src/model/types.ts, useProjectStore).  The store  *)
(* state is project (<< >> for null, else << the project >>), currentScreen,*)
(* selectedBlockId (<< >> for null), isPlaying and playbackPosition.  Of a  *)
(* project the model keeps participant_count, experience_level,            *)
(* total_minutes, room and blocks; of a block its id, type, window_minutes, order, exercise_id,     *)
(* required_assets, question_config and the two computed fields.  Titles,   *)
(* notes, goals, room objects and the updated_at timestamp are left out:    *)
(* no handler reads them.                                                   *)

\* a ?? b
Coalesce(a, b) == IF a = Undefined THEN b ELSE a[1]

\* BLOCK_TYPE_META[type].defaultMinutes
DefaultMinutes(type) ==
    CASE type = "opening_questions" -> 20
      [] type = "contract"          -> 10
      [] type = "lecture"           -> 30
      [] type = "pairs"             -> 20
      [] type = "groups"            -> 30
      [] type = "workbook"          -> 15
      [] type = "energizer"         -> 10
      [] type = "video_debrief"     -> 25
      [] type = "recap_module"      -> 10
      [] type = "recap_day"         -> 15
      [] type = "break"             -> 15

defaultRequiredAssets ==
    [ tables |-> FALSE, flipchart_count |-> 0, screen |-> FALSE ]

defaultRoom ==
    [ template |-> "horseshoe_tables", flipchart_count |-> 1,
      has_screen |-> TRUE, has_tables |-> TRUE ]

\* the number of flipchart objects generateRoomObjects places
GeneratedFlipcharts(template) ==
    IF template = "lecture_20plus" THEN 1 ELSE 2

\* Math.round(total_minutes * 10) / 10, of a duration held in seconds
RoundToTenth(seconds) ==
    MathRound(seconds * 10, SecondsPerMinute) * (SecondsPerMinute \div 10)

\* the map callback of recomputeAllBlocks without the case of the breaks
RecomputeBlock_BreakEstimated(p, blk) ==
    LET est == EstimateBlockTime(
                   [ base_minutes      |-> blk.window_minutes,
                     experience_level  |-> p.experience_level,
                     participant_count |-> p.participant_count,
                     method            |-> blk.type,
                     room_template     |-> p.room.template,
                     question_config   |-> blk.question_config ])
    IN  [ blk EXCEPT
            !.estimated_minutes = << RoundToTenth(est.total_minutes) >>,
            !.fits_in_window =
                << est.total_minutes <=
                       blk.window_minutes * SecondsPerMinute >> ]

\* the map callback of recomputeAllBlocks
RecomputeBlock(p, blk) ==
    IF blk.type = "break"
    THEN [ blk EXCEPT
             !.estimated_minutes = << blk.window_minutes * SecondsPerMinute >>,
             !.fits_in_window = << TRUE >> ]
    ELSE LET est == EstimateBlockTime(
                        [ base_minutes      |-> blk.window_minutes,
                          experience_level  |-> p.experience_level,
                          participant_count |-> p.participant_count,
                          method            |-> blk.type,
                          room_template     |-> p.room.template,
                          question_config   |-> blk.question_config ])
         IN  [ blk EXCEPT
                 !.estimated_minutes = << RoundToTenth(est.total_minutes) >>,
                 !.fits_in_window =
                     << est.total_minutes <=
                            blk.window_minutes * SecondsPerMinute >> ]

\* recomputeAllBlocks, on the store's project (null stays null)
RecomputeAllBlocks(proj) ==
    IF proj = Undefined
    THEN proj
    ELSE LET p == proj[1]
         IN  << [ p EXCEPT !.blocks =
                    [ k \in 1..Len(p.blocks) |-> RecomputeBlock(p, p.blocks[k]) ] ] >>

\* the order fields left as they were
Reindex_OrdersKept(blocks) == blocks

\* blocks.forEach((b, i) => (b.order = i))
Reindex(blocks) ==
    [ k \in 1..Len(blocks) |-> [ blocks[k] EXCEPT !.order = k - 1 ] ]

\* { ...target, ...data }: the properties data has replace the target's
Spread(target, data) ==
    [ f \in DOMAIN target |-> IF f \in DOMAIN data THEN data[f] ELSE target[f] ]

\* blocks.splice(at, 0, item), at a zero-based position
InsertAt(blocks, at, item) ==
    SubSeq(blocks, 1, at) \o << item >> \o SubSeq(blocks, at + 1, Len(blocks))

\* blocks.splice(at, 1), at a zero-based position
RemoveAt(blocks, at) ==
    SubSeq(blocks, 1, at) \o SubSeq(blocks, at + 2, Len(blocks))

----------------------------------------------------------------------------
(* Inputs *)

MaxQuestions == 3

MaxFlipcharts == 1

MaxCatalog == 6

Questions(n) == [ i \in 1..n |-> "Q" ]

QuestionConfig(n, persons, perGroup) ==
    [ questions                     |-> Questions(n),
      persons_per_question          |-> persons,
      questions_per_group           |-> perGroup,
      seconds_per_question_prompt   |-> 15,
      seconds_per_answer            |-> 30,
      expected_answers_per_question |-> 3 ]

QuestionConfigs ==
    { Undefined } \cup
    { << QuestionConfig(n, persons, perGroup) >> :
        n \in 0..MaxQuestions, persons \in { 4, 5 }, perGroup \in { 1, 2 } }

TimeParams ==
    [ base_minutes      : { 0, 20, 30 },
      experience_level  : ExperienceLevel,
      participant_count : { 0, 4, 8, 12 },
      method            : BlockType,
      room_template     : RoomTemplate,
      question_config   : QuestionConfigs ]

DefaultParams ==
    [ base_minutes |-> 30, experience_level |-> "novice",
      participant_count |-> 12, method |-> "groups",
      room_template |-> "horseshoe_tables", question_config |-> Undefined ]

Exercise(id, type, time_range_max, range_min, range_max, tables, flipcharts, screen) ==
    [ id                       |-> id,
      type                     |-> type,
      time_range_max           |-> time_range_max,
      participant_range_min    |-> range_min,
      participant_range_max    |-> range_max,
      requires_tables          |-> tables,
      requires_flipchart_count |-> flipcharts,
      requires_screen          |-> screen ]

DefaultExercise == Exercise("ex-1", "groups", 25, 6, 20, FALSE, 0, FALSE)

DefaultBlock ==
    [ type |-> "groups", window_minutes |-> 45, question_config |-> Undefined ]

DefaultRoom ==
    [ template |-> "horseshoe_tables", flipchart_count |-> 2,
      has_screen |-> TRUE, has_tables |-> TRUE ]

FitExercises ==
    { Exercise("ex-1", type, time_range_max, range[1], range[2],
               tables, flipcharts, screen) :
        type \in { "groups", "pairs" },
        time_range_max \in { 25, 40 },
        range \in { << 6, 10 >>, << 10, 12 >> },
        tables \in BOOLEAN,
        flipcharts \in 0..MaxFlipcharts,
        screen \in BOOLEAN }

FitBlocks ==
    [ type            : { "groups", "pairs" },
      window_minutes  : { 31, 45 },
      question_config : { Undefined, << QuestionConfig(3, 5, 2) >> } ]

FitRooms ==
    [ template        : { "horseshoe_tables", "lecture_20plus" },
      flipchart_count : 0..MaxFlipcharts,
      has_screen      : BOOLEAN,
      has_tables      : BOOLEAN ]

FitParticipants == { 5, 10, 12 }

\* the exercises a catalog is drawn from
ExercisePool ==
    << Exercise("g1", "groups", 25, 6, 20, FALSE, 0, FALSE),
       Exercise("g2", "groups", 25, 6, 20, FALSE, 0, FALSE),
       Exercise("g3", "groups", 15, 4, 12, FALSE, 1, FALSE),
       Exercise("g4", "groups", 42, 2, 30, TRUE, 2, TRUE),
       Exercise("g5", "groups", 30, 6, 18, FALSE, 0, TRUE),
       Exercise("g6", "groups", 40, 8, 16, FALSE, 0, FALSE),
       Exercise("g7", "groups", 45, 10, 14, FALSE, 0, FALSE),
       Exercise("p1", "pairs", 25, 2, 20, FALSE, 0, FALSE),
       Exercise("p2", "pairs", 20, 8, 8, FALSE, 0, FALSE) >>

\* a catalog: at most MaxCatalog exercises of the pool, in pool order
Catalogs ==
    { LET In(i) == i \in S
          picked == SelectSeq([ i \in 1..Len(ExercisePool) |-> i ], In)
      IN  [ k \in 1..Len(picked) |-> ExercisePool[picked[k]] ] :
        S \in { T \in SUBSET (1..Len(ExercisePool)) : Cardinality(T) <= MaxCatalog } }

RecBlocks ==
    [ type            : { "groups", "pairs" },
      window_minutes  : { 40, 60 },
      question_config : { Undefined, << QuestionConfig(3, 5, 2) >> } ]

RecRooms ==
    { DefaultRoom,
      [ template |-> "lecture_20plus", flipchart_count |-> 1,
        has_screen |-> TRUE, has_tables |-> FALSE ] }

RecParticipants == { 8, 12 }

MaxOffset == 120

MaxDays == 1

\* the clock string HH:MM of hour h and minute mi
Clock(h, mi) ==
    << Digits[(h \div 10) + 1], Digits[(h % 10) + 1], ":",
       Digits[(mi \div 10) + 1], Digits[(mi % 10) + 1] >>

StartTimes ==
    { Undefined } \cup { Clock(h, mi) : h \in 0..23, mi \in { 0, 30, 59 } }

\* elapsed minutes: an offset within a day, after a number of whole days
Offsets == { d * 24 * 60 + o : d \in 0..MaxDays, o \in 0..MaxOffset }

----------------------------------------------------------------------------
\* the values a property of the document may have
FieldValues ==
    { JsonNull, JsonNumber, JsonString(0), JsonString(3), JsonArray,
      JsonObject(<< >>) }

\* the values of the properties that importJSON does not look into
OpaqueValues == { JsonString(3) }

ValuesOf(field) ==
    IF field \in { "id", "blocks", "room" } THEN FieldValues ELSE OpaqueValues

\* JSON objects with any subset of the required fields
ProjectObjects ==
    UNION { { JsonObject(f) : f \in { g \in [ present -> FieldValues ] :
                                        \A field \in present :
                                            g[field] \in ValuesOf(field) } } :
            present \in SUBSET { requiredFields[k] : k \in 1..Len(requiredFields) } }

\* the texts given to importJSON: one that does not parse, and the texts of
\* null, a boolean, a number, a string, an array and the project objects
JsonTexts ==
    { [ parses |-> FALSE, value |-> JsonNull ] } \cup
    { [ parses |-> TRUE, value |-> v ] :
        v \in { JsonNull, JsonBoolean, JsonNumber, JsonString(3), JsonArray }
              \cup ProjectObjects }

MaxBlocks == 2

\* uuidv4(): the ids a new block can get
BlockIdPool == << "b1", "b2", "b3", "b4" >>

BlockIds == { BlockIdPool[i] : i \in 1..MaxBlocks }

\* the longest agenda of the agenda editor's specification
MaxAgenda == 3

AgendaIds == { BlockIdPool[i] : i \in 1..MaxAgenda }

AgendaBlock(id, type, window_minutes, order, question_config) ==
    [ id                |-> id,
      type              |-> type,
      window_minutes    |-> window_minutes,
      order             |-> order,
      exercise_id       |-> Undefined,
      required_assets   |-> defaultRequiredAssets,
      question_config   |-> question_config,
      estimated_minutes |-> Undefined,
      fits_in_window    |-> Undefined ]

LectureRoom ==
    [ template |-> "lecture_20plus", flipchart_count |-> 1,
      has_screen |-> TRUE, has_tables |-> FALSE ]

\* an agenda as the demo project has it: orders from 1, no computed fields
DemoBlocks ==
    << AgendaBlock("b1", "groups", 30, 1, Undefined),
       AgendaBlock("b2", "break", 15, 2, Undefined) >>

\* the projects a saved or exported document can hold: computed fields absent
\* (they are not persisted) or left over from the session that saved them
StoredProjects ==
    { [ participant_count |-> 12, experience_level |-> "mixed",
        total_minutes |-> 480, room |-> defaultRoom, blocks |-> DemoBlocks ],
      [ participant_count |-> 20, experience_level |-> "advanced",
        total_minutes |-> 480, room |-> LectureRoom,
        blocks |-> << [ AgendaBlock("b1", "opening_questions", 20, 0,
                                    << QuestionConfig(3, 5, 2) >>)
                        EXCEPT !.estimated_minutes = << 20 * SecondsPerMinute >>,
                               !.fits_in_window = << TRUE >> ] >> ] }

\* Partial<TrainingProject> arguments of createProject: the setup form gives
\* no blocks and no room
CreateData ==
    [ participant_count : { Undefined, << 20 >> },
      experience_level  : { Undefined, << "novice" >> },
      total_minutes     : { Undefined },
      blocks            : { Undefined },
      room              : { Undefined } ]

\* Partial<TrainingProject> arguments of updateProject
UpdateProjectData ==
    { [ participant_count |-> 20 ], [ experience_level |-> "advanced" ] }

\* Partial<AgendaBlock> arguments of updateBlock
UpdateBlockData == { [ window_minutes |-> 45 ] }

\* Partial<RoomLayout> arguments of updateRoom
UpdateRoomData == { [ template |-> "lecture_20plus" ] }

AppliedTemplates == { "horseshoe_tables", "lecture_20plus" }

Screens == { "setup", "timeline", "room", "simulation" }

AddedTypes == { "groups", "break" }

\* the texts given to importProject: one that does not parse, the text of
\* null, and a document with every required field
ImportedTexts ==
    { [ parses |-> FALSE, value |-> JsonNull ],
      [ parses |-> TRUE, value |-> JsonNull ],
      [ parses |-> TRUE,
        value |-> JsonObject([ field \in { requiredFields[k] :
                                            k \in 1..Len(requiredFields) } |->
                                 CASE field = "blocks" -> JsonArray
                                   [] field = "room"   -> JsonObject(<< >>)
                                   [] OTHER            -> JsonString(3) ]) ] }

\* exercise ids given to assignExercise: one of the library, one unknown
AssignedExerciseIds == { "g4", "unknown" }

\* the longest training day of the playback's specification, in minutes
MaxTotal == 30

\* the projects the simulation plays: a saved project with a day of no
\* length, of one minute, of half and of the whole of MaxTotal
PlaybackProjects ==
    { [ p EXCEPT !.total_minutes = t ] :
        p \in { q \in StoredProjects : q.experience_level = "mixed" },
        t \in { 0, 1, MaxTotal \div 2, MaxTotal } }

----------------------------------------------------------------------------
(* Specifications *)

NoResults ==
    /\ estimate = Undefined
    /\ fitResult = Undefined
    /\ recommendations = Undefined
    /\ called = "none"

\* formatMinutesToTime not applied
ClockIdle ==
    /\ minutes = 0
    /\ start_time = Undefined
    /\ formatted = Undefined

\* importJSON not applied
ImportIdle ==
    /\ json = [ parses |-> FALSE, value |-> JsonNull ]
    /\ imported = Undefined

\* the store not in use
StoreIdle ==
    /\ project = Undefined
    /\ currentScreen = "setup"
    /\ selectedBlockId = Undefined
    /\ isPlaying = FALSE
    /\ playbackPosition = 0

\* estimateBlockTime applied to every params
InitTime ==
    /\ params \in TimeParams
    /\ exercise = DefaultExercise
    /\ block = DefaultBlock
    /\ room = DefaultRoom
    /\ participant_count = 12
    /\ experience_level = "mixed"
    /\ catalog = << >>
    /\ NoResults
    /\ ClockIdle
    /\ ImportIdle
    /\ StoreIdle

\* checkExerciseFit applied to every exercise, block, room, count and level
Init ==
    /\ params = DefaultParams
    /\ exercise \in FitExercises
    /\ block \in FitBlocks
    /\ room \in FitRooms
    /\ participant_count \in FitParticipants
    /\ experience_level \in ExperienceLevel
    /\ catalog = << >>
    /\ NoResults
    /\ ClockIdle
    /\ ImportIdle
    /\ StoreIdle

\* getRecommendations and getQuickAlternatives over every catalog
InitRec ==
    /\ params = DefaultParams
    /\ exercise = DefaultExercise
    /\ block \in RecBlocks
    /\ room \in RecRooms
    /\ participant_count \in RecParticipants
    /\ experience_level \in ExperienceLevel
    /\ catalog \in Catalogs
    /\ NoResults
    /\ ClockIdle
    /\ ImportIdle
    /\ StoreIdle

\* no engine function has arguments of interest
EngineIdle ==
    /\ params = DefaultParams
    /\ exercise = DefaultExercise
    /\ block = DefaultBlock
    /\ room = DefaultRoom
    /\ participant_count = 12
    /\ experience_level = "mixed"
    /\ catalog = << >>

\* formatMinutesToTime applied to every offset and start time
InitClock ==
    /\ EngineIdle
    /\ NoResults
    /\ minutes \in Offsets
    /\ start_time \in StartTimes
    /\ formatted = Undefined
    /\ ImportIdle
    /\ StoreIdle

\* importJSON applied to every text
InitImport ==
    /\ EngineIdle
    /\ NoResults
    /\ ClockIdle
    /\ json \in JsonTexts
    /\ imported = Undefined
    /\ StoreIdle

\* the initial state of useProjectStore
InitStore ==
    /\ EngineIdle
    /\ NoResults
    /\ ClockIdle
    /\ ImportIdle
    /\ StoreIdle

EstimateBlockTimeCall ==
    /\ estimate' = EstimateBlockTime(params)
    /\ called' = "estimateBlockTime"
    /\ UNCHANGED << params, exercise, block, room, participant_count,
                    experience_level, fitResult, catalog, recommendations >>
    /\ UNCHANGED << clockVars, importVars, storeVars >>

CheckExerciseFitCall ==
    /\ fitResult' = CheckExerciseFit(exercise, block, room, participant_count,
                                     experience_level)
    /\ called' = "checkExerciseFit"
    /\ UNCHANGED << params, estimate, exercise, block, room, participant_count,
                    experience_level, catalog, recommendations >>
    /\ UNCHANGED << clockVars, importVars, storeVars >>

GetRecommendationsCall ==
    /\ recommendations' = GetRecommendations(catalog, block, room,
                              participant_count, experience_level)
    /\ called' = "getRecommendations"
    /\ UNCHANGED << params, estimate, exercise, block, room, participant_count,
                    experience_level, fitResult, catalog >>
    /\ UNCHANGED << clockVars, importVars, storeVars >>

GetQuickAlternativesCall ==
    /\ recommendations' = GetQuickAlternatives(catalog, block, room,
                              participant_count, experience_level)
    /\ called' = "getQuickAlternatives"
    /\ UNCHANGED << params, estimate, exercise, block, room, participant_count,
                    experience_level, fitResult, catalog >>
    /\ UNCHANGED << clockVars, importVars, storeVars >>

FormatMinutesToTimeCall ==
    /\ formatted' = FormatMinutesToTime(minutes, start_time)
    /\ called' = "formatMinutesToTime"
    /\ UNCHANGED << engineVars, minutes, start_time, importVars, storeVars >>

ImportJSONCall ==
    /\ imported' = << ImportJSON(json) >>
    /\ called' = "importJSON"
    /\ UNCHANGED << engineVars, clockVars, json, storeVars >>

\* getExerciseById(exerciseId)
GetExerciseById(exerciseId) ==
    LET HasId(ex) == ex.id = exerciseId
        found == SelectSeq(ExercisePool, HasId)
    IN  IF found = << >> THEN Undefined ELSE << found[1] >>

CreateProject(data) ==
    /\ project' =
           << [ participant_count |-> Coalesce(data.participant_count, 12),
                experience_level  |-> Coalesce(data.experience_level, "mixed"),
                total_minutes     |-> Coalesce(data.total_minutes, 480),
                blocks            |-> Coalesce(data.blocks, << >>),
                room              |-> Coalesce(data.room, defaultRoom) ] >>
    /\ currentScreen' = "timeline"
    /\ selectedBlockId' = Undefined
    /\ playbackPosition' = 0
    /\ isPlaying' = FALSE
    /\ called' = "useProjectStore"
    /\ UNCHANGED << engineVars, clockVars, importVars >>

UpdateProject(data) ==
    /\ project' = IF project = Undefined
                  THEN project
                  ELSE << Spread(project[1], data) >>
    /\ called' = "useProjectStore"
    /\ UNCHANGED << engineVars, clockVars, importVars, currentScreen,
                    selectedBlockId, isPlaying, playbackPosition >>

\* stored is what storage.load(id) resolves to: a saved project or null
LoadProject(stored) ==
    /\ IF stored # Undefined
       THEN /\ project' = RecomputeAllBlocks(stored)
            /\ currentScreen' = "timeline"
            /\ selectedBlockId' = Undefined
            /\ playbackPosition' = 0
            /\ isPlaying' = FALSE
       ELSE UNCHANGED << project, currentScreen, selectedBlockId,
                         playbackPosition, isPlaying >>
    /\ called' = "useProjectStore"
    /\ UNCHANGED << engineVars, clockVars, importVars >>

\* importProject resetting the screen, the selection and the playback before
\* importJSON has accepted the document
ImportProject_ResetsBeforeParsing(text, content) ==
    /\ json' = text
    /\ imported' = << ImportJSON(text) >>
    /\ project' = IF ImportJSON(text).threw = "none"
                  THEN RecomputeAllBlocks(<< content >>)
                  ELSE project
    /\ currentScreen' = "timeline"
    /\ selectedBlockId' = Undefined
    /\ playbackPosition' = 0
    /\ isPlaying' = FALSE
    /\ called' = "useProjectStore"
    /\ UNCHANGED << engineVars, clockVars >>

\* text is the document and content the project it denotes when importJSON
\* returns it; an error of importJSON leaves the handler before set()
ImportProject(text, content) ==
    /\ json' = text
    /\ imported' = << ImportJSON(text) >>
    /\ IF ImportJSON(text).threw = "none"
       THEN /\ project' = RecomputeAllBlocks(<< content >>)
            /\ currentScreen' = "timeline"
            /\ selectedBlockId' = Undefined
            /\ playbackPosition' = 0
            /\ isPlaying' = FALSE
       ELSE UNCHANGED << project, currentScreen, selectedBlockId,
                         playbackPosition, isPlaying >>
    /\ called' = "useProjectStore"
    /\ UNCHANGED << engineVars, clockVars >>

\* insertAt is << >> when the argument is left out.  Which action was called
\* is recorded by the specification that takes the step; the same holds of
\* removeBlock and reorderBlocks
AddBlock(id, type, insertAt) ==
    /\ project' =
           IF project = Undefined
           THEN project
           ELSE LET p == project[1]
                    newBlock == AgendaBlock(id, type, DefaultMinutes(type), 0,
                                            Undefined)
                    blocks ==
                        IF /\ insertAt # Undefined
                           /\ insertAt[1] >= 0
                           /\ insertAt[1] <= Len(p.blocks)
                        THEN InsertAt(p.blocks, insertAt[1], newBlock)
                        ELSE Append(p.blocks, newBlock)
                IN  RecomputeAllBlocks(
                        << [ p EXCEPT !.blocks = Reindex(blocks) ] >>)
    /\ UNCHANGED << engineVars, clockVars, importVars, currentScreen,
                    selectedBlockId, isPlaying, playbackPosition >>

UpdateBlock(id, data) ==
    /\ project' =
           IF project = Undefined
           THEN project
           ELSE LET p == project[1]
                    blocks == [ k \in 1..Len(p.blocks) |->
                                  IF p.blocks[k].id = id
                                  THEN Spread(p.blocks[k], data)
                                  ELSE p.blocks[k] ]
                IN  RecomputeAllBlocks(<< [ p EXCEPT !.blocks = blocks ] >>)
    /\ called' = "useProjectStore"
    /\ UNCHANGED << engineVars, clockVars, importVars, currentScreen,
                    selectedBlockId, isPlaying, playbackPosition >>

RemoveBlock(id) ==
    /\ IF project = Undefined
       THEN UNCHANGED << project, selectedBlockId >>
       ELSE LET p == project[1]
                Other(b) == b.id # id
                blocks == Reindex(SelectSeq(p.blocks, Other))
            IN  /\ project' =
                       RecomputeAllBlocks(<< [ p EXCEPT !.blocks = blocks ] >>)
                /\ selectedBlockId' = IF selectedBlockId = << id >>
                                      THEN Undefined
                                      ELSE selectedBlockId
    /\ UNCHANGED << engineVars, clockVars, importVars, currentScreen,
                    isPlaying, playbackPosition >>

\* reorderBlocks taking toIndex as a position of the array before the
\* removal: a block moved down lands one place early
ReorderBlocks_TargetBeforeRemoval(fromIndex, toIndex) ==
    /\ project' =
           IF project = Undefined
           THEN project
           ELSE LET p == project[1]
                IN  IF \/ fromIndex < 0
                       \/ fromIndex >= Len(p.blocks)
                       \/ toIndex < 0
                       \/ toIndex >= Len(p.blocks)
                    THEN project
                    ELSE LET moved == p.blocks[fromIndex + 1]
                             at == IF toIndex > fromIndex
                                   THEN toIndex - 1
                                   ELSE toIndex
                             blocks == InsertAt(RemoveAt(p.blocks, fromIndex),
                                                at, moved)
                         IN  RecomputeAllBlocks(
                                 << [ p EXCEPT !.blocks = Reindex(blocks) ] >>)
    /\ UNCHANGED << engineVars, clockVars, importVars, currentScreen,
                    selectedBlockId, isPlaying, playbackPosition >>

ReorderBlocks(fromIndex, toIndex) ==
    /\ project' =
           IF project = Undefined
           THEN project
           ELSE LET p == project[1]
                IN  IF \/ fromIndex < 0
                       \/ fromIndex >= Len(p.blocks)
                       \/ toIndex < 0
                       \/ toIndex >= Len(p.blocks)
                    THEN project
                    ELSE LET moved == p.blocks[fromIndex + 1]
                             blocks == InsertAt(RemoveAt(p.blocks, fromIndex),
                                                toIndex, moved)
                         IN  RecomputeAllBlocks(
                                 << [ p EXCEPT !.blocks = Reindex(blocks) ] >>)
    /\ UNCHANGED << engineVars, clockVars, importVars, currentScreen,
                    selectedBlockId, isPlaying, playbackPosition >>

AssignExercise(blockId, exerciseId) ==
    /\ project' =
           IF project = Undefined \/ GetExerciseById(exerciseId) = Undefined
           THEN project
           ELSE LET p == project[1]
                    ex == GetExerciseById(exerciseId)[1]
                    blocks == [ k \in 1..Len(p.blocks) |->
                                  IF p.blocks[k].id # blockId
                                  THEN p.blocks[k]
                                  ELSE [ p.blocks[k] EXCEPT
                                           !.exercise_id = << exerciseId >>,
                                           !.required_assets =
                                               [ tables |-> ex.requires_tables,
                                                 flipchart_count |->
                                                     ex.requires_flipchart_count,
                                                 screen |-> ex.requires_screen ] ] ]
                IN  RecomputeAllBlocks(<< [ p EXCEPT !.blocks = blocks ] >>)
    /\ called' = "useProjectStore"
    /\ UNCHANGED << engineVars, clockVars, importVars, currentScreen,
                    selectedBlockId, isPlaying, playbackPosition >>

UpdateRoom(data) ==
    /\ project' =
           IF project = Undefined
           THEN project
           ELSE << [ project[1] EXCEPT !.room = Spread(project[1].room, data) ] >>
    /\ called' = "useProjectStore"
    /\ UNCHANGED << engineVars, clockVars, importVars, currentScreen,
                    selectedBlockId, isPlaying, playbackPosition >>

\* participantCount only places the chairs and tables of the room objects
ApplyRoomTemplate(template, participantCount) ==
    /\ project' =
           IF project = Undefined
           THEN project
           ELSE << [ project[1] EXCEPT !.room =
                       [ project[1].room EXCEPT
                           !.template = template,
                           !.has_tables = (template = "horseshoe_tables"),
                           !.has_screen = TRUE,
                           !.flipchart_count = GeneratedFlipcharts(template) ] ] >>
    /\ called' = "useProjectStore"
    /\ UNCHANGED << engineVars, clockVars, importVars, currentScreen,
                    selectedBlockId, isPlaying, playbackPosition >>

RecomputeAllBlocksCall ==
    /\ project' = RecomputeAllBlocks(project)
    /\ called' = "useProjectStore"
    /\ UNCHANGED << engineVars, clockVars, importVars, currentScreen,
                    selectedBlockId, isPlaying, playbackPosition >>

NextTime == EstimateBlockTimeCall

Next == CheckExerciseFitCall

NextRec == GetRecommendationsCall \/ GetQuickAlternativesCall

NextClock == FormatMinutesToTimeCall

NextImport == ImportJSONCall

\* uuidv4() gives a new block an id no block of the project has
FreshIds ==
    IF project = Undefined
    THEN BlockIds
    ELSE BlockIds \ { project[1].blocks[k].id : k \in 1..Len(project[1].blocks) }

NextStore ==
    \/ \E data \in CreateData : CreateProject(data)
    \/ \E data \in UpdateProjectData : UpdateProject(data)
    \/ \E stored \in { Undefined } \cup { << p >> : p \in StoredProjects } :
           LoadProject(stored)
    \/ \E text \in ImportedTexts, content \in StoredProjects :
           ImportProject(text, content)
    \/ \E id \in FreshIds, type \in AddedTypes,
          insertAt \in { Undefined } \cup { << i >> : i \in 0..MaxBlocks } :
           AddBlock(id, type, insertAt) /\ called' = "useProjectStore"
    \/ \E id \in BlockIds, data \in UpdateBlockData : UpdateBlock(id, data)
    \/ \E id \in BlockIds : RemoveBlock(id) /\ called' = "useProjectStore"
    \/ \E fromIndex \in -1..MaxBlocks, toIndex \in -1..MaxBlocks :
           ReorderBlocks(fromIndex, toIndex) /\ called' = "useProjectStore"
    \/ \E blockId \in BlockIds, exerciseId \in AssignedExerciseIds :
           AssignExercise(blockId, exerciseId)
    \/ \E data \in UpdateRoomData : UpdateRoom(data)
    \/ \E template \in AppliedTemplates : ApplyRoomTemplate(template, 12)
    \/ RecomputeAllBlocksCall

SpecTime == InitTime /\ [][NextTime]_vars

Spec == Init /\ [][Next]_vars

SpecRec == InitRec /\ [][NextRec]_vars

SpecClock == InitClock /\ [][NextClock]_vars

SpecImport == InitImport /\ [][NextImport]_vars

SpecStore == InitStore /\ [][NextStore]_vars

\* play: () => set({ isPlaying: true }), from the simulation's button, which
\* shows it while playback is paused
Play ==
    /\ project # Undefined
    /\ ~isPlaying
    /\ isPlaying' = TRUE
    /\ called' = "play"
    /\ UNCHANGED << engineVars, clockVars, importVars, project, currentScreen,
                    selectedBlockId, playbackPosition >>

\* pause: () => set({ isPlaying: false }), from the same button while
\* playing
Pause ==
    /\ project # Undefined
    /\ isPlaying
    /\ isPlaying' = FALSE
    /\ called' = "pause"
    /\ UNCHANGED << engineVars, clockVars, importVars, project, currentScreen,
                    selectedBlockId, playbackPosition >>

\* setPlaybackPosition(position), from the time slider (min 0, max
\* total_minutes)
SetPlaybackPosition(position) ==
    /\ project # Undefined
    /\ playbackPosition' = position
    /\ called' = "setPlaybackPosition"
    /\ UNCHANGED << engineVars, clockVars, importVars, project, currentScreen,
                    selectedBlockId, isPlaying >>

\* the playback timer never pausing at the end of the day
Tick_NeverPauses ==
    /\ project # Undefined
    /\ isPlaying
    /\ LET total_minutes == project[1].total_minutes
           nextPos == playbackPosition + 1
       IN  IF nextPos >= total_minutes
           THEN /\ playbackPosition' = total_minutes
                /\ isPlaying' = isPlaying
           ELSE /\ playbackPosition' = nextPos
                /\ isPlaying' = isPlaying
    /\ called' = "setInterval"
    /\ UNCHANGED << engineVars, clockVars, importVars, project, currentScreen,
                    selectedBlockId >>

\* one callback of the playback timer, which runs while isPlaying in the
\* mounted simulation
Tick ==
    /\ project # Undefined
    /\ isPlaying
    /\ LET total_minutes == project[1].total_minutes
           nextPos == playbackPosition + 1
       IN  IF nextPos >= total_minutes
           THEN /\ playbackPosition' = total_minutes
                /\ isPlaying' = FALSE
           ELSE /\ playbackPosition' = nextPos
                /\ isPlaying' = isPlaying
    /\ called' = "setInterval"
    /\ UNCHANGED << engineVars, clockVars, importVars, project, currentScreen,
                    selectedBlockId >>

\* setScreen: (screen) => set({ currentScreen: screen })
SetScreen(screen) ==
    /\ currentScreen' = screen
    /\ called' = "useProjectStore"
    /\ UNCHANGED << engineVars, clockVars, importVars, project,
                    selectedBlockId, isPlaying, playbackPosition >>

\* selectBlock: (id) => set({ selectedBlockId: id })
SelectBlock(id) ==
    /\ selectedBlockId' = id
    /\ called' = "useProjectStore"
    /\ UNCHANGED << engineVars, clockVars, importVars, project,
                    currentScreen, isPlaying, playbackPosition >>

\* the slider's values for the loaded project
SliderValues ==
    IF project = Undefined THEN { } ELSE 0..project[1].total_minutes

NextPlayback ==
    \/ \E stored \in { << p >> : p \in PlaybackProjects } : LoadProject(stored)
    \/ Play
    \/ Pause
    \/ \E position \in SliderValues : SetPlaybackPosition(position)
    \/ Tick

\* a session in which the user selects, navigates, plays and edits before a
\* document is imported
NextImportProject ==
    \/ \E stored \in { << p >> : p \in StoredProjects } : LoadProject(stored)
    \/ \E data \in UpdateProjectData : UpdateProject(data)
    \/ \E screen \in Screens : SetScreen(screen)
    \/ \E id \in { Undefined, << BlockIdPool[1] >> } : SelectBlock(id)
    \/ Play
    \/ Pause
    \/ \E position \in { 0, MaxTotal } : SetPlaybackPosition(position)
    \/ \E text \in ImportedTexts, content \in StoredProjects :
           ImportProject(text, content)

SpecImportProject == InitStore /\ [][NextImportProject]_vars

\* setInterval keeps calling the timer's callback while playback is on
SpecPlayback == InitStore /\ [][NextPlayback]_vars /\ WF_vars(Tick)

\* the agenda editor on a loaded project: the ids in use
AgendaFreshIds ==
    IF project = Undefined
    THEN AgendaIds
    ELSE AgendaIds \ { project[1].blocks[k].id : k \in 1..Len(project[1].blocks) }

AddBlockCall ==
    /\ \E id \in AgendaFreshIds, type \in AddedTypes,
          insertAt \in { Undefined } \cup { << i >> : i \in 0..MaxAgenda } :
           AddBlock(id, type, insertAt)
    /\ called' = "addBlock"

RemoveBlockCall ==
    /\ \E id \in AgendaIds : RemoveBlock(id)
    /\ called' = "removeBlock"

ReorderBlocksCall ==
    /\ \E fromIndex \in -1..MaxAgenda, toIndex \in -1..MaxAgenda :
           ReorderBlocks(fromIndex, toIndex)
    /\ called' = "reorderBlocks"

NextAgenda ==
    \/ \E stored \in { << p >> : p \in StoredProjects } : LoadProject(stored)
    \/ \E data \in UpdateProjectData : UpdateProject(data)
    \/ AddBlockCall
    \/ RemoveBlockCall
    \/ ReorderBlocksCall

SpecAgenda == InitStore /\ [][NextAgenda]_vars

----------------------------------------------------------------------------
(* Properties of estimateBlockTime, under SpecTime *)

\* C1: the total_minutes that estimateBlockTime returns is the sum of the
\* four components it returns (base, experience modifier, overhead,
\* interaction), and the base_minutes it returns is the base_minutes it was
\* given.
C1_TotalIsSumOfComponents ==
    called = "estimateBlockTime" =>
        /\ estimate.total_minutes =
               estimate.base_minutes + estimate.experience_modifier_minutes +
               estimate.overhead_minutes + estimate.interaction_minutes
        /\ estimate.base_minutes = params.base_minutes * SecondsPerMinute

\* an estimate in which all four components are non-zero
C1_Witness ==
    /\ called = "estimateBlockTime"
    /\ params.question_config # Undefined
    /\ estimate.base_minutes > 0
    /\ estimate.experience_modifier_minutes < 0
    /\ estimate.overhead_minutes > 0
    /\ estimate.interaction_minutes > 0

----------------------------------------------------------------------------
(* Properties of checkExerciseFit, under Spec *)

ParticipantsInRange ==
    /\ exercise.participant_range_min <= participant_count
    /\ participant_count <= exercise.participant_range_max

TablesAvailable == exercise.requires_tables => room.has_tables

FlipchartsAvailable == exercise.requires_flipchart_count <= room.flipchart_count

ScreenAvailable == exercise.requires_screen => room.has_screen

AssetChecksPass ==
    /\ ParticipantsInRange
    /\ TablesAvailable
    /\ FlipchartsAvailable
    /\ ScreenAvailable

\* C2: checkExerciseFit returns fits = true exactly when the participant
\* count is within the exercise's range (bounds included), the tables, the
\* flipcharts (as many as needed is enough) and the screen the exercise
\* needs are in the room, and the projected minutes it reports do not exceed
\* the block's window (equal is enough).
C2_FitsIffAllChecksPass ==
    called = "checkExerciseFit" =>
        ( fitResult.fits <=>
            /\ AssetChecksPass
            /\ fitResult.estimated_minutes <=
                   block.window_minutes * SecondsPerMinute )

\* a fit on every boundary at once: the count is the range's maximum, the
\* room has exactly the flipcharts needed, the estimate is exactly the window
C2_Witness ==
    /\ called = "checkExerciseFit"
    /\ fitResult.fits
    /\ participant_count = exercise.participant_range_max
    /\ exercise.requires_flipchart_count > 0
    /\ exercise.requires_flipchart_count = room.flipchart_count
    /\ fitResult.estimated_minutes = block.window_minutes * SecondsPerMinute

\* the reason of the earliest check that fails, in the order participant
\* range, tables, flipcharts, screen, time window
EarliestFailingReason ==
    IF ~ParticipantsInRange
    THEN << "Participant count outside range" >>
    ELSE IF ~TablesAvailable
    THEN << "Exercise requires tables but room has none" >>
    ELSE IF ~FlipchartsAvailable
    THEN << "Exercise needs more flipcharts than room has" >>
    ELSE IF ~ScreenAvailable
    THEN << "Exercise requires a screen but room has none" >>
    ELSE IF fitResult.estimated_minutes > block.window_minutes * SecondsPerMinute
    THEN << "Estimated minutes exceed window" >>
    ELSE Undefined

\* C3: the result of checkExerciseFit carries the reason of the earliest
\* failing check in the order participant range, tables, flipcharts, screen,
\* time window, and only that one; a result with fits = false has a reason
\* and a result with fits = true has none.
C3_ReasonOfEarliestFailingCheck ==
    called = "checkExerciseFit" =>
        /\ fitResult.reason = EarliestFailingReason
        /\ fitResult.fits <=> fitResult.reason = Undefined

\* tables, flipcharts and screen are all missing: the reason is the tables'
C3_Witness ==
    /\ called = "checkExerciseFit"
    /\ ParticipantsInRange
    /\ ~TablesAvailable
    /\ ~FlipchartsAvailable
    /\ ~ScreenAvailable
    /\ fitResult.reason = << "Exercise requires tables but room has none" >>

\* C4: the estimate checkExerciseFit projects is estimateBlockTime of the
\* exercise's time_range_max with the block's type as method, the block's
\* question_config, the participant count, the experience level and the
\* room's template, whether or not the exercise's type is the block's.
C4_EstimateUsesBlockMethod ==
    ( called = "checkExerciseFit" /\ AssetChecksPass ) =>
        fitResult.estimated_minutes =
            EstimateBlockTime(
                [ base_minutes      |-> exercise.time_range_max,
                  experience_level  |-> experience_level,
                  participant_count |-> participant_count,
                  method            |-> block.type,
                  room_template     |-> room.template,
                  question_config   |-> block.question_config ]).total_minutes

----------------------------------------------------------------------------
(* Properties of getRecommendations and getQuickAlternatives, under SpecRec *)

Ranked == called \in { "getRecommendations", "getQuickAlternatives" }

FitOf(ex) ==
    CheckExerciseFit(ex, block, room, participant_count, experience_level)

\* the candidates of getRecommendations: the catalog's exercises of the
\* block's type that pass checkExerciseFit
FitsBlock(ex) == ex.type = block.type /\ FitOf(ex).fits

Fitting == SelectSeq(catalog, FitsBlock)

\* the score the ranking sorts by
ScoreOf(ex) ==
    ScoreExercise(ex, block, FitOf(ex).estimated_minutes, participant_count)

ScoreAtMost(a, b) == CompareScore(ScoreOf(a), ScoreOf(b)) <= 0

UnderThreshold(ex) == 10 * ex.time_range_max < 7 * block.window_minutes

NumMain == Min(3, Len(Fitting))

RecExercise(k) == recommendations[k].exercise

RecIds(from, to) == { RecExercise(k).id : k \in from..to }

\* C5: every Recommendation of getRecommendations and getQuickAlternatives is
\* for an exercise of the catalog whose type is the block's and that
\* checkExerciseFit accepts for the same block, room, count and level; its
\* estimated_minutes is that fit's estimate and lies within the window, so
\* the time-fit ratio is between 0 and 1.
C5_RecommendationsFit ==
    Ranked =>
        \A k \in 1..Len(recommendations) :
            LET rec == recommendations[k]
            IN  /\ InSeq(rec.exercise, catalog)
                /\ rec.exercise.type = block.type
                /\ FitOf(rec.exercise).fits
                /\ rec.estimated_minutes = FitOf(rec.exercise).estimated_minutes
                /\ block.window_minutes > 0
                /\ 0 <= rec.estimated_minutes
                /\ rec.estimated_minutes <=
                       block.window_minutes * SecondsPerMinute

\* recommendations from a catalog that also holds an exercise of another
\* type and an exercise of the block's type that does not fit
C5_Witness ==
    /\ called = "getRecommendations"
    /\ Len(recommendations) >= 1
    /\ \E i \in 1..Len(catalog) : catalog[i].type # block.type
    /\ \E i \in 1..Len(catalog) :
           catalog[i].type = block.type /\ ~FitOf(catalog[i]).fits

\* C6: getRecommendations returns at most 5 entries.
C6_AtMostFive ==
    called = "getRecommendations" => Len(recommendations) <= 5

\* six candidates fit and five are returned
C6_Witness ==
    /\ called = "getRecommendations"
    /\ Len(Fitting) >= 6
    /\ Len(recommendations) = 5

\* C7: the first min(3, n) entries of getRecommendations, n being the number
\* of fitting candidates, are in non-increasing order of score, and no
\* fitting candidate outside them has a score greater than one of them.
C7_MainPicksAreTopScored ==
    called = "getRecommendations" =>
        /\ Len(recommendations) >= NumMain
        /\ \A i \in 1..(NumMain - 1) :
               ScoreAtMost(RecExercise(i + 1), RecExercise(i))
        /\ \A j \in 1..Len(Fitting) :
               Fitting[j].id \notin RecIds(1, NumMain) =>
                   \A i \in 1..NumMain : ScoreAtMost(Fitting[j], RecExercise(i))

\* four or more candidates fit, the main picks' scores differ, and the
\* candidate that is first in the catalog is not a main pick
C7_Witness ==
    /\ called = "getRecommendations"
    /\ Len(Fitting) >= 4
    /\ ~ScoreAtMost(RecExercise(1), RecExercise(3))
    /\ Fitting[1].id \notin RecIds(1, 3)

\* the positions of the rescue picks in the result
RescuePositions == (NumMain + 1)..Len(recommendations)

\* the fitting candidates that are not main picks
NotMain == { j \in 1..Len(Fitting) : Fitting[j].id \notin RecIds(1, NumMain) }

SameClass(a, b) == UnderThreshold(a) <=> UnderThreshold(b)

\* C8: the rescue picks are candidates that are not main picks; there are 2
\* of them, or as many as there are candidates left; those under the
\* threshold (time_range_max < 0.7 * window) come first and number 2, or as
\* many as are left under the threshold, so none is passed over for a
\* backfilled one; the picks under the threshold are the highest-scored
\* under it, the backfilled picks the highest-scored of the others, each in
\* score order.
C8_RescuePicks ==
    called = "getRecommendations" =>
        LET under == { j \in NotMain : UnderThreshold(Fitting[j]) }
            picked == RecIds(1, Len(recommendations))
        IN  /\ \A k \in RescuePositions :
                   \E j \in NotMain : Fitting[j] = RecExercise(k)
            /\ Cardinality(RescuePositions) = Min(2, Cardinality(NotMain))
            /\ Cardinality({ k \in RescuePositions :
                               UnderThreshold(RecExercise(k)) })
                   = Min(2, Cardinality(under))
            /\ \A k, l \in RescuePositions :
                   k < l => ( UnderThreshold(RecExercise(l))
                                 => UnderThreshold(RecExercise(k)) )
            /\ \A k, l \in RescuePositions :
                   ( k < l /\ SameClass(RecExercise(k), RecExercise(l)) )
                       => ScoreAtMost(RecExercise(l), RecExercise(k))
            /\ \A j \in NotMain, k \in RescuePositions :
                   ( Fitting[j].id \notin picked
                     /\ SameClass(Fitting[j], RecExercise(k)) )
                       => ScoreAtMost(Fitting[j], RecExercise(k))

\* one candidate under the threshold is left after the main picks: it is the
\* first rescue pick, ahead of a backfilled pick with a greater score
C8_Witness ==
    /\ called = "getRecommendations"
    /\ Len(recommendations) = 5
    /\ UnderThreshold(RecExercise(4))
    /\ ~UnderThreshold(RecExercise(5))
    /\ ~ScoreAtMost(RecExercise(5), RecExercise(4))

\* C9: the fit_score of every Recommendation lies between 0 and 1.
C9_FitScoreInUnitInterval ==
    Ranked =>
        \A k \in 1..Len(recommendations) :
            /\ 0 <= recommendations[k].fit_score
            /\ recommendations[k].fit_score <= 100

\* a recommendation scored above 0.9
C9_Witness ==
    /\ Ranked
    /\ \E k \in 1..Len(recommendations) : recommendations[k].fit_score > 90

\* 100 * (0.4 * timeFit + 0.3 * participantMatch + 0.2 * assetMatch + 0.1),
\* rounded to the nearest integer, for the exercise and estimate of rec
WeightedScoreRounded(rec) ==
    LET ex == rec.exercise
        W == block.window_minutes
        range == ex.participant_range_max - ex.participant_range_min
        R == IF range = 0 THEN 1 ELSE range
        \* participantMatch * R
        match == IF range = 0
                 THEN 1
                 ELSE Max(0, Min(range,
                          range - Abs(2 * participant_count
                                      - ex.participant_range_min
                                      - ex.participant_range_max)))
        assetDemand == (IF ex.requires_tables THEN 1 ELSE 0)
                       + ex.requires_flipchart_count
                       + (IF ex.requires_screen THEN 1 ELSE 0)
        \* 100 * score * (60 W R)
        scaled == 40 * rec.estimated_minutes * R
                  + 30 * match * 60 * W
                  + 2 * Max(0, 10 - assetDemand) * 60 * W * R
                  + 10 * 60 * W * R
    IN  (2 * scaled + 60 * W * R) \div (2 * 60 * W * R)

\* C10: fit_score is 0.4 * timeFit + 0.3 * participantMatch + 0.2 * assetMatch
\* + 0.1 rounded to 2 decimal places, with timeFit = estimated_minutes /
\* window_minutes and assetMatch = max(0, 1 - 0.1 * assetDemand); the dynamics
\* term is 1 for every exercise and block.
C10_FitScoreIsWeightedSum ==
    Ranked =>
        \A k \in 1..Len(recommendations) :
            recommendations[k].fit_score =
                WeightedScoreRounded(recommendations[k])

\* a recommendation for an exercise that needs assets, is off the middle of
\* its participant range and does not fill the window
C10_Witness ==
    /\ Ranked
    /\ \E k \in 1..Len(recommendations) :
           LET rec == recommendations[k]
           IN  /\ rec.exercise.requires_flipchart_count > 0
               /\ rec.exercise.requires_screen
               /\ 2 * participant_count # rec.exercise.participant_range_min
                                         + rec.exercise.participant_range_max
               /\ rec.estimated_minutes <
                      block.window_minutes * SecondsPerMinute

----------------------------------------------------------------------------
(* Properties of the components of a TimeEstimate, under SpecTime *)

\* the estimate of the same params at another experience level
EstimateAtLevel(level) ==
    EstimateBlockTime([ params EXCEPT !.experience_level = level ])

\* C13: the experience modifier is +20% of base_minutes for novice, 0 for
\* mixed and -20% of base_minutes for advanced; the experience level changes
\* nothing else: overhead_minutes and interaction_minutes are the same at all
\* three levels.
C13_ExperienceAffectsOnlyModifier ==
    called = "estimateBlockTime" =>
        /\ 10 * estimate.experience_modifier_minutes =
               ( CASE params.experience_level = "novice"   -> 2
                   [] params.experience_level = "mixed"    -> 0
                   [] params.experience_level = "advanced" -> -2 )
               * params.base_minutes * SecondsPerMinute
        /\ \A level \in ExperienceLevel :
               /\ EstimateAtLevel(level).overhead_minutes =
                      estimate.overhead_minutes
               /\ EstimateAtLevel(level).interaction_minutes =
                      estimate.interaction_minutes

\* an advanced group with questions: the modifier is negative while overhead
\* and interaction time are positive
C13_Witness ==
    /\ called = "estimateBlockTime"
    /\ params.experience_level = "advanced"
    /\ params.base_minutes > 0
    /\ estimate.experience_modifier_minutes < 0
    /\ estimate.overhead_minutes > 0
    /\ estimate.interaction_minutes > 0

\* the overhead table, in seconds, before the room template is looked at
OverheadTable(method, count) ==
    CASE method = "groups"        -> 180 + 18 * count
      [] method = "pairs"         -> 120 + 9 * count
      [] method = "workbook"      -> 60 + 6 * count
      [] method = "video_debrief" -> 120
      [] method = "lecture"       -> 60
      [] method = "energizer"     -> 60
      [] method \in { "opening_questions", "contract", "recap_module",
                      "recap_day", "break" } -> 30

\* C14: the overhead is 3 + 0.3p for groups, 2 + 0.15p for pairs, 1 + 0.1p
\* for workbook, 2 for video_debrief, 1 for lecture, 1 for energizer and 0.5
\* for the other block types, p the participant count; with the room
\* template lecture_20plus it is exactly 1 minute more than with either
\* other template, for every method.
C14_OverheadTable ==
    called = "estimateBlockTime" =>
        LET table == OverheadTable(params.method, params.participant_count)
        IN  /\ params.room_template # "lecture_20plus" =>
                   estimate.overhead_minutes = table
            /\ params.room_template = "lecture_20plus" =>
                   /\ estimate.overhead_minutes = table + SecondsPerMinute
                   /\ \A template \in RoomTemplate \ { "lecture_20plus" } :
                          estimate.overhead_minutes =
                              EstimateBlockTime(
                                  [ params EXCEPT !.room_template = template ]
                              ).overhead_minutes + SecondsPerMinute

\* pairs work in the large lecture room: a per-participant share and the
\* extra minute
C14_Witness ==
    /\ called = "estimateBlockTime"
    /\ params.method = "pairs"
    /\ params.participant_count = 12
    /\ params.room_template = "lecture_20plus"
    /\ estimate.overhead_minutes = 288

\* n is Math.ceil(count / persons): the least number of groups of that size
\* that hold count people
IsCeiling(n, count, persons) ==
    /\ n * persons >= count
    /\ n > 0 => (n - 1) * persons < count

\* C15: the interaction time is 0 without a question_config; with one it is
\* questions_count * (seconds_per_question_prompt +
\* expected_answers_per_question * seconds_per_answer) / 60 minutes, where
\* questions_count is the larger of the suggested count,
\* ceil(p / persons_per_question) * questions_per_group, and the number of
\* questions entered.
C15_InteractionTime ==
    called = "estimateBlockTime" =>
        IF params.question_config = Undefined
        THEN estimate.interaction_minutes = 0
        ELSE LET qc == params.question_config[1]
             IN  \E n \in 0..params.participant_count :
                     /\ IsCeiling(n, params.participant_count,
                                  qc.persons_per_question)
                     /\ estimate.interaction_minutes * 60 =
                            Max(n * qc.questions_per_group, Len(qc.questions))
                            * (qc.seconds_per_question_prompt +
                               qc.expected_answers_per_question *
                               qc.seconds_per_answer)
                            * SecondsPerMinute

\* a partial group: the participants do not divide into the group size, and
\* the suggested count exceeds the questions entered
C15_Witness ==
    /\ called = "estimateBlockTime"
    /\ params.question_config # Undefined
    /\ params.participant_count % params.question_config[1].persons_per_question # 0
    /\ GetSuggestedQuestionCount(params.participant_count,
           params.question_config[1].persons_per_question,
           params.question_config[1].questions_per_group)
         > Len(params.question_config[1].questions)
    /\ estimate.interaction_minutes > 0

\* C16: overhead_minutes is at least 0.5, interaction_minutes is not
\* negative, experience_modifier_minutes is negative only at the advanced
\* level, total_minutes is not negative, and total_minutes is below
\* base_minutes only at the advanced level.
C16_ComponentSigns ==
    called = "estimateBlockTime" =>
        /\ 2 * estimate.overhead_minutes >= SecondsPerMinute
        /\ estimate.interaction_minutes >= 0
        /\ estimate.experience_modifier_minutes < 0 =>
               params.experience_level = "advanced"
        /\ estimate.total_minutes >= 0
        /\ estimate.total_minutes < params.base_minutes * SecondsPerMinute =>
               params.experience_level = "advanced"

\* an advanced block whose total is below its base
C16_Witness ==
    /\ called = "estimateBlockTime"
    /\ params.experience_level = "advanced"
    /\ estimate.experience_modifier_minutes < 0
    /\ estimate.total_minutes < params.base_minutes * SecondsPerMinute

----------------------------------------------------------------------------
(* Properties of the participant-match score, under SpecRec *)

PassesParticipantFilter(ex) ==
    /\ ex.participant_range_min <= participant_count
    /\ participant_count <= ex.participant_range_max

RangeOf(ex) == ex.participant_range_max - ex.participant_range_min

\* C11: for every exercise of the catalog that passes the participant filter,
\* the participant-match score is 1 - |participant_count - midpoint| /
\* (range / 2), and 1 when the range is 0; it lies between 0 and 1 before
\* clamping, so the clamped score is the same; with a range above 0 it is 1
\* exactly at the midpoint and 0 exactly at participant_range_min and
\* participant_range_max.
C11_ParticipantMatch ==
    Ranked =>
        \A k \in 1..Len(catalog) :
            LET ex == catalog[k]
                score == ParticipantScore(ex, participant_count)
                clamped == ClampedParticipantScore(ex, participant_count)
            IN  PassesParticipantFilter(ex) =>
                    /\ score.den > 0
                    /\ clamped.den > 0
                    /\ RangeOf(ex) = 0 => score.num = score.den
                    /\ RangeOf(ex) > 0 =>
                           score.num * RangeOf(ex) =
                               score.den *
                               (RangeOf(ex) -
                                Abs(2 * participant_count -
                                    (ex.participant_range_min +
                                     ex.participant_range_max)))
                    /\ 0 <= score.num
                    /\ score.num <= score.den
                    /\ clamped.num * score.den = score.num * clamped.den
                    /\ RangeOf(ex) > 0 =>
                           /\ score.num = score.den <=>
                                  2 * participant_count =
                                      ex.participant_range_min +
                                      ex.participant_range_max
                           /\ score.num = 0 <=>
                                  participant_count \in
                                      { ex.participant_range_min,
                                        ex.participant_range_max }

\* a ranking that recommends an exercise whose range is a single count, over
\* a catalog that also holds an exercise at its midpoint, one at its minimum
\* and one strictly between
C11_Witness ==
    /\ Ranked
    /\ \E k \in 1..Len(recommendations) :
           /\ RangeOf(RecExercise(k)) = 0
           /\ PassesParticipantFilter(RecExercise(k))
    /\ \E k \in 1..Len(catalog) :
           /\ RangeOf(catalog[k]) > 0
           /\ 2 * participant_count = catalog[k].participant_range_min +
                                      catalog[k].participant_range_max
    /\ \E k \in 1..Len(catalog) :
           /\ RangeOf(catalog[k]) > 0
           /\ participant_count = catalog[k].participant_range_min
    /\ \E k \in 1..Len(catalog) :
           LET score == ParticipantScore(catalog[k], participant_count)
           IN  /\ PassesParticipantFilter(catalog[k])
               /\ 0 < score.num
               /\ score.num < score.den

----------------------------------------------------------------------------
(* Properties of getQuickAlternatives, under SpecRec *)

\* the candidates of getQuickAlternatives: the fitting exercises of the
\* block's type that are shorter than 0.7 of the window
IsQuickFit(ex) == FitsBlock(ex) /\ UnderThreshold(ex)

QuickFitting == SelectSeq(catalog, IsQuickFit)

\* C12: getQuickAlternatives returns at most 2 Recommendations, and 2 when
\* there are that many candidates; each is for a catalog exercise of the
\* block's type with time_range_max below 0.7 of the window that
\* checkExerciseFit accepts; they are in non-increasing score order and no
\* candidate left out scores higher; each carries the estimate, the rounded
\* weighted score and the reason that getRecommendations gives the same
\* exercise.
C12_QuickAlternatives ==
    called = "getQuickAlternatives" =>
        /\ Len(recommendations) <= 2
        /\ Len(recommendations) = Min(2, Len(QuickFitting))
        /\ \A k \in 1..Len(recommendations) :
               /\ InSeq(RecExercise(k), catalog)
               /\ RecExercise(k).type = block.type
               /\ 10 * RecExercise(k).time_range_max < 7 * block.window_minutes
               /\ FitOf(RecExercise(k)).fits
               /\ recommendations[k].estimated_minutes =
                      FitOf(RecExercise(k)).estimated_minutes
               /\ recommendations[k].fit_score =
                      WeightedScoreRounded(recommendations[k])
               /\ recommendations[k].reason =
                      GenerateReason(RecExercise(k),
                          FitOf(RecExercise(k)).estimated_minutes, block)
        /\ \A k \in 1..(Len(recommendations) - 1) :
               ScoreAtMost(RecExercise(k + 1), RecExercise(k))
        /\ \A i \in 1..Len(QuickFitting) :
               QuickFitting[i].id \notin RecIds(1, Len(recommendations)) =>
                   \A k \in 1..Len(recommendations) :
                       ScoreAtMost(QuickFitting[i], RecExercise(k))
        /\ LET full == GetRecommendations(catalog, block, room,
                           participant_count, experience_level)
           IN  \A k \in 1..Len(recommendations) :
                   \A j \in 1..Len(full) :
                       full[j].exercise.id = RecExercise(k).id =>
                           full[j] = recommendations[k]

\* two quick alternatives of different scores chosen out of three or more
\* candidates, while a longer exercise of the block's type fits as well
C12_Witness ==
    /\ called = "getQuickAlternatives"
    /\ Len(recommendations) = 2
    /\ Len(QuickFitting) >= 3
    /\ ~ScoreAtMost(RecExercise(1), RecExercise(2))
    /\ \E k \in 1..Len(Fitting) : ~UnderThreshold(Fitting[k])

----------------------------------------------------------------------------
(* Properties of formatMinutesToTime, under SpecClock *)

\* C17: for an offset of m whole minutes and a start time HH:MM (00:00 when
\* none is given), formatMinutesToTime returns the zero-padded clock string
\* of (start + m) modulo 1440 minutes, hour 00..23 and minute 00..59; a
\* whole day more gives the same string, and offset 0 gives the start time
\* itself.
C17_ClockWrapsAtMidnight ==
    called = "formatMinutesToTime" =>
        /\ \E h \in 0..23, mi \in 0..59 :
               /\ \/ start_time = Undefined /\ h = 0 /\ mi = 0
                  \/ start_time = Clock(h, mi)
               /\ LET total == (h * 60 + mi + minutes) % (24 * 60)
                  IN  formatted = Clock(total \div 60, total % 60)
               /\ FormatMinutesToTime(0, start_time) = Clock(h, mi)
        /\ FormatMinutesToTime(minutes + 24 * 60, start_time) = formatted
        /\ start_time # Undefined =>
               FormatMinutesToTime(0, start_time) = start_time

\* 23:00 + 120 minutes is 01:00 the next day
C17_Witness ==
    /\ called = "formatMinutesToTime"
    /\ start_time = << "2", "3", ":", "0", "0" >>
    /\ minutes = 120
    /\ formatted = << "0", "1", ":", "0", "0" >>

----------------------------------------------------------------------------
(* Properties of importJSON, under SpecImport *)

Outcome == imported[1]

\* the required fields the parsed document lacks, by position
MissingFields ==
    { k \in 1..Len(requiredFields) : ~HasField(requiredFields[k], json.value) }

FirstMissing == CHOOSE k \in MissingFields : \A j \in MissingFields : k <= j

IdIsNonEmptyString ==
    /\ json.value.fields["id"].kind = "string"
    /\ json.value.fields["id"].length > 0

BlocksIsArray == json.value.fields["blocks"].kind = "array"

RoomIsObject == json.value.fields["room"].kind \in { "object", "array" }

ValidProject ==
    /\ json.parses
    /\ MissingFields = { }
    /\ IdIsNonEmptyString
    /\ BlocksIsArray
    /\ RoomIsObject

\* the error of the first failing check, in the order parse, missing field,
\* id, blocks, room
ExpectedError ==
    IF ~json.parses
    THEN << "Invalid JSON: could not parse input" >>
    ELSE IF MissingFields # { }
    THEN << "Invalid project: missing required field",
            requiredFields[FirstMissing] >>
    ELSE IF ~IdIsNonEmptyString
    THEN << "Invalid project: \"id\" must be a non-empty string" >>
    ELSE IF ~BlocksIsArray
    THEN << "Invalid project: \"blocks\" must be an array" >>
    ELSE << "Invalid project: \"room\" must be an object" >>

----------------------------------------------------------------------------
(* Properties of the project store, under SpecStore *)

\* C19: after every action of the store (createProject, updateProject,
\* importProject, loadProject, addBlock, updateBlock, removeBlock,
\* reorderBlocks, assignExercise, updateRoom, applyRoomTemplate) every
\* block's estimated_minutes and fits_in_window are what recomputeAllBlocks
\* gives for the project's current participant_count, experience_level and
\* room template and the block's window and question_config.
C19_ComputedFieldsCurrent ==
    (called = "useProjectStore" /\ project # Undefined) =>
        \A k \in 1..Len(project[1].blocks) :
            LET blk == project[1].blocks[k]
                recomputed == RecomputeBlock(project[1], blk)
            IN  /\ blk.estimated_minutes = recomputed.estimated_minutes
                /\ blk.fits_in_window = recomputed.fits_in_window

----------------------------------------------------------------------------
(* Properties of the order of the recommendations, under SpecRec *)

\* C21: the list getRecommendations returns is in non-increasing order of
\* fit_score over its whole length: each entry's fit_score is at least the
\* next entry's, main picks and rescue picks alike.
C21_SortedByFitScore ==
    called = "getRecommendations" =>
        \A i \in 1..(Len(recommendations) - 1) :
            recommendations[i].fit_score >= recommendations[i + 1].fit_score

\* C21, amended: each entry's fit_score is at least the next entry's, except
\* where a rescue pick under the threshold (time_range_max < 0.7 * window) is
\* followed by a backfilled rescue pick that is not under it.
C21_SortedButForBackfill ==
    called = "getRecommendations" =>
        \A i \in 1..(Len(recommendations) - 1) :
            \/ recommendations[i].fit_score >= recommendations[i + 1].fit_score
            \/ /\ i > 3
               /\ 10 * RecExercise(i).time_range_max < 7 * block.window_minutes
               /\ 10 * RecExercise(i + 1).time_range_max >=
                      7 * block.window_minutes

\* five recommendations with three different fit_scores among the main
\* picks, the rescue picks in order too
C21_Witness ==
    /\ called = "getRecommendations"
    /\ Len(recommendations) = 5
    /\ recommendations[1].fit_score > recommendations[2].fit_score
    /\ recommendations[2].fit_score > recommendations[3].fit_score
    /\ recommendations[3].fit_score > recommendations[4].fit_score
    /\ recommendations[4].fit_score > recommendations[5].fit_score
    /\ \E k \in 1..3 : Fitting[k].id # RecExercise(k).id

----------------------------------------------------------------------------
(* The estimate a FitResult carries, under Spec *)

\* the total checkExerciseFit projects once the participant and asset checks
\* have passed
ProjectedTotal ==
    EstimateBlockTime(
        [ base_minutes      |-> exercise.time_range_max,
          experience_level  |-> experience_level,
          participant_count |-> participant_count,
          method            |-> exercise.type,
          room_template     |-> room.template,
          question_config   |-> block.question_config ]).total_minutes

\* C22: the estimated_minutes of a FitResult is 0 when the participant-range,
\* tables, flipchart or screen check fails; when only the time-window check
\* fails it is the projected total, strictly greater than the block's
\* window_minutes; on success it is the projected total, at most
\* window_minutes.
C22_EstimateByFailingCheck ==
    called = "checkExerciseFit" =>
        /\ ~AssetChecksPass =>
               /\ ~fitResult.fits
               /\ fitResult.estimated_minutes = 0
        /\ ( AssetChecksPass /\ ~fitResult.fits ) =>
               /\ fitResult.estimated_minutes = ProjectedTotal
               /\ fitResult.estimated_minutes >
                      block.window_minutes * SecondsPerMinute
        /\ fitResult.fits =>
               /\ fitResult.estimated_minutes = ProjectedTotal
               /\ fitResult.estimated_minutes <=
                      block.window_minutes * SecondsPerMinute

\* only the time-window check fails and the overage is reported
C22_Witness ==
    /\ called = "checkExerciseFit"
    /\ AssetChecksPass
    /\ ~fitResult.fits
    /\ fitResult.estimated_minutes > block.window_minutes * SecondsPerMinute
    /\ fitResult.reason = << "Estimated minutes exceed window" >>

\* C23: getRecommendations returns exactly min(5, n) entries, n the number of
\* catalog exercises of the block's type that pass checkExerciseFit: none
\* when no exercise of the block's type fits, and with fewer than 5 entries
\* every fitting candidate is in the list.
C23_CountIsMinFiveFitting ==
    called = "getRecommendations" =>
        /\ Len(recommendations) = Min(5, Len(Fitting))
        /\ Len(Fitting) = 0 => recommendations = << >>
        /\ Len(recommendations) < 5 =>
               \A j \in 1..Len(Fitting) :
                   \E k \in 1..Len(recommendations) :
                       RecExercise(k) = Fitting[j]

\* four candidates fit and the fourth entry is a backfilled rescue pick
C23_Witness ==
    /\ called = "getRecommendations"
    /\ Len(Fitting) = 4
    /\ Len(recommendations) = 4
    /\ ~UnderThreshold(RecExercise(4))

\* C24: no exercise appears twice in the list getRecommendations returns:
\* main picks, threshold-preferred and backfilled rescue picks are pairwise
\* distinct catalog entries.
C24_NoExerciseTwice ==
    called = "getRecommendations" =>
        \A k, l \in 1..Len(recommendations) :
            k # l => /\ RecExercise(k).id # RecExercise(l).id
                     /\ \E i, j \in 1..Len(catalog) :
                            /\ i # j
                            /\ catalog[i] = RecExercise(k)
                            /\ catalog[j] = RecExercise(l)

\* a main pick is under the rescue threshold, and there are both a
\* threshold-preferred and a backfilled rescue pick
C24_Witness ==
    /\ called = "getRecommendations"
    /\ Len(recommendations) = 5
    /\ \E k \in 1..3 : UnderThreshold(RecExercise(k))
    /\ UnderThreshold(RecExercise(4))
    /\ ~UnderThreshold(RecExercise(5))

\* C25: each rescue pick (entry 4 or 5) has a score less than or equal to
\* the score of every main pick (entries 1 to 3).
C25_RescueNotAboveMain ==
    called = "getRecommendations" =>
        \A k \in 4..Len(recommendations), i \in 1..3 :
            /\ ScoreAtMost(RecExercise(k), RecExercise(i))
            /\ recommendations[k].fit_score <= recommendations[i].fit_score

\* the rescue picks are out of score order between themselves, and the
\* higher of them scores below the lowest main pick
C25_Witness ==
    /\ called = "getRecommendations"
    /\ Len(recommendations) = 5
    /\ ~ScoreAtMost(RecExercise(5), RecExercise(4))
    /\ ~ScoreAtMost(RecExercise(3), RecExercise(5))

----------------------------------------------------------------------------
(* Properties of the store's actions, under SpecStore *)

\* overhead + interaction of a block of project p, in seconds
OverheadAndInteraction(p, blk) ==
    OverheadTable(blk.type, p.participant_count)
    + (IF p.room.template = "lecture_20plus" THEN SecondsPerMinute ELSE 0)
    + CalculateInteractionMinutes(blk.question_config, p.participant_count)

\* the estimate of a block with its own window as the base, in seconds
WindowEstimate(p, blk) ==
    blk.window_minutes * SecondsPerMinute
    + ( CASE p.experience_level = "novice" ->
                 (blk.window_minutes * SecondsPerMinute) \div 5
          [] p.experience_level = "advanced" ->
                 -((blk.window_minutes * SecondsPerMinute) \div 5)
          [] OTHER -> 0 )
    + OverheadAndInteraction(p, blk)

\* what recomputeAllBlocks leaves in a block of project p
Recomputed(p, blk) ==
    IF blk.type = "break"
    THEN /\ blk.estimated_minutes = << blk.window_minutes * SecondsPerMinute >>
         /\ blk.fits_in_window = << TRUE >>
    ELSE /\ blk.fits_in_window =
                << WindowEstimate(p, blk) <=
                       blk.window_minutes * SecondsPerMinute >>
         /\ p.experience_level \in { "novice", "mixed" } =>
                blk.fits_in_window = << FALSE >>
         /\ ( p.experience_level = "advanced"
              /\ blk.fits_in_window = << TRUE >> ) =>
                5 * OverheadAndInteraction(p, blk) <=
                    blk.window_minutes * SecondsPerMinute

----------------------------------------------------------------------------
(* Properties of the agenda editor, under SpecAgenda *)

\* every block's order is its zero-based index in blocks
OrdersAreIndexes(blocks) == \A k \in 1..Len(blocks) : blocks[k].order = k - 1

\* C27: on a loaded project, immediately after each addBlock, removeBlock
\* and reorderBlocks every block's order equals its zero-based index in
\* project.blocks, whatever the orders were when the project was loaded.
C27_OrderIsIndexAfterEachAction ==
    ( called \in { "addBlock", "removeBlock", "reorderBlocks" }
      /\ project # Undefined ) => OrdersAreIndexes(project[1].blocks)

\* C27, amended: on a loaded project, immediately after each addBlock, each
\* removeBlock and each reorderBlocks with both indices within 0..n-1 every
\* block's order equals its zero-based index; a reorderBlocks with an index
\* out of range leaves the orders as they were.
C27_OrderIsIndexAfterEachChange ==
    [][ project # Undefined =>
          /\ ( AddBlockCall \/ RemoveBlockCall ) =>
                 OrdersAreIndexes(project'[1].blocks)
          /\ \A fromIndex, toIndex \in -1..MaxAgenda :
                 ( ReorderBlocks(fromIndex, toIndex)
                   /\ called' = "reorderBlocks" ) =>
                     IF /\ fromIndex \in 0..(Len(project[1].blocks) - 1)
                        /\ toIndex \in 0..(Len(project[1].blocks) - 1)
                     THEN OrdersAreIndexes(project'[1].blocks)
                     ELSE \A k \in 1..Len(project[1].blocks) :
                              project'[1].blocks[k].order =
                                  project[1].blocks[k].order ]_vars

\* the two blocks of the loaded agenda, whose orders were 1 and 2, after
\* reorderBlocks has exchanged them
C27_Witness ==
    /\ called = "reorderBlocks"
    /\ project # Undefined
    /\ Len(project[1].blocks) = 2
    /\ project[1].blocks[1].id = DemoBlocks[2].id
    /\ project[1].blocks[2].id = DemoBlocks[1].id
    /\ OrdersAreIndexes(project[1].blocks)

\* what a block is apart from its order and its computed fields
Content(blk) ==
    [ id |-> blk.id, type |-> blk.type, window_minutes |-> blk.window_minutes,
      exercise_id |-> blk.exercise_id, required_assets |-> blk.required_assets,
      question_config |-> blk.question_config ]

Contents(blocks) == [ k \in 1..Len(blocks) |-> Content(blocks[k]) ]

\* C28: reorderBlocks(fromIndex, toIndex) with an index outside 0..n-1, or
\* with no project loaded, leaves the store's state unchanged (no block
\* moved, nothing recomputed); with both indices in range the blocks are a
\* permutation of the previous ones with the moved block at toIndex and the
\* other blocks in their previous relative order.
C28_ReorderBlocksFrame ==
    [][ \A fromIndex, toIndex \in -1..MaxAgenda :
          ( ReorderBlocks(fromIndex, toIndex) /\ called' = "reorderBlocks" ) =>
              IF \/ project = Undefined
                 \/ fromIndex \notin 0..(Len(project[1].blocks) - 1)
                 \/ toIndex \notin 0..(Len(project[1].blocks) - 1)
              THEN storeVars' = storeVars
              ELSE LET before == Contents(project[1].blocks)
                       after == Contents(project'[1].blocks)
                   IN  /\ Len(after) = Len(before)
                       /\ after[toIndex + 1] = before[fromIndex + 1]
                       /\ RemoveAt(after, toIndex) = RemoveAt(before, fromIndex)
                       /\ UNCHANGED << currentScreen, selectedBlockId,
                                       isPlaying, playbackPosition >> ]_vars

\* three blocks after reorderBlocks, the block added last moved to the front
C28_Witness ==
    /\ called = "reorderBlocks"
    /\ project # Undefined
    /\ Len(project[1].blocks) = 3
    /\ project[1].blocks[1].id = BlockIdPool[3]
    /\ project[1].blocks[2].id = BlockIdPool[1]
    /\ project[1].blocks[3].id = BlockIdPool[2]
    /\ OrdersAreIndexes(project[1].blocks)

----------------------------------------------------------------------------
(* Properties of the simulation's playback, under SpecPlayback *)

\* what a tick of the timer does to the position and to isPlaying
TickAdvancesOrStops ==
    Tick =>
        LET total_minutes == project[1].total_minutes
        IN  /\ IF playbackPosition + 1 < total_minutes
               THEN /\ playbackPosition' = playbackPosition + 1
                    /\ isPlaying'
               ELSE /\ playbackPosition' = total_minutes
                    /\ ~isPlaying'
            /\ ( 0 <= playbackPosition /\ playbackPosition <= total_minutes )
                   => playbackPosition' <= total_minutes

\* C29: while isPlaying each tick of the timer sets playbackPosition to
\* playbackPosition + 1 when that is < total_minutes and otherwise sets it to
\* total_minutes and pauses; from a position within 0..total_minutes no tick
\* moves it beyond total_minutes; and, the ticks going on, playback that is
\* on is eventually paused (by the tick that reaches total_minutes, unless
\* the user pauses first).
C29_PlaybackStops ==
    /\ [][TickAdvancesOrStops]_vars
    /\ isPlaying ~> ~isPlaying

\* C29, amended: the same of every tick; and, the ticks going on, playback
\* that is on is eventually paused unless the user keeps moving the time
\* slider for ever.
C29_PlaybackStopsUnlessSliderMoved ==
    /\ [][TickAdvancesOrStops]_vars
    /\ \/ []<><< \E position \in SliderValues : SetPlaybackPosition(position) >>_vars
       \/ isPlaying ~> ~isPlaying

\* the timer has paused playback at the end of a day of MaxTotal minutes
C29_Witness ==
    /\ called = "setInterval"
    /\ project # Undefined
    /\ project[1].total_minutes = MaxTotal
    /\ playbackPosition = MaxTotal
    /\ ~isPlaying

----------------------------------------------------------------------------
(* Properties of importProject, under SpecImportProject *)

\* the blocks of p are what recomputeAllBlocks leaves
Current(p) == RecomputeAllBlocks(<< p >>) = << p >>

\* C30: when importJSON rejects the document given to importProject the
\* error reaches the caller and the store is unchanged: project,
\* currentScreen, selectedBlockId, playbackPosition and isPlaying keep their
\* values and nothing is recomputed; a successful import replaces the
\* project and sets the screen to 'timeline', the selection to null, the
\* position to 0 and isPlaying to false.
C30_RejectedImportChangesNothing ==
    [][ \A text \in ImportedTexts, content \in StoredProjects :
          ImportProject(text, content) =>
              IF imported'[1].threw # "none"
              THEN /\ ~ValidProject'
                   /\ project' = project
                   /\ currentScreen' = currentScreen
                   /\ selectedBlockId' = selectedBlockId
                   /\ playbackPosition' = playbackPosition
                   /\ isPlaying' = isPlaying
              ELSE /\ ValidProject'
                   /\ project' # Undefined
                   /\ Contents(project'[1].blocks) = Contents(content.blocks)
                   /\ Current(project'[1])
                   /\ currentScreen' = "timeline"
                   /\ selectedBlockId' = Undefined
                   /\ playbackPosition' = 0
                   /\ isPlaying' = FALSE ]_vars

\* a rejected import has left a stale project, a selected block, the
\* simulation screen and a running playback as they were
C30_Witness ==
    /\ imported # Undefined
    /\ imported[1].threw # "none"
    /\ project # Undefined
    /\ ~Current(project[1])
    /\ currentScreen = "simulation"
    /\ selectedBlockId # Undefined
    /\ playbackPosition = MaxTotal
    /\ isPlaying

=============================================================================
